---- MODULE Spec2Model ----
(***************************************************************************)
(* A model of telegram-channel-joiner (src/src/bot.py).                    *)
(*                                                                         *)
(* Three layers, each with its own specification over the same variables:  *)
(*   SpecLock     SessionManager.acquire_lock / release_lock called by     *)
(*                independent processes, one system call per step, on a    *)
(*                file system with flock(2) semantics;                     *)
(*   SpecAccount  the methods of one UserAccount of the bot process, with  *)
(*                another process contending for the same lock file;       *)
(*   SpecRun      UserAccount.join_chats, one step per suspension point    *)
(*                (SpecRamp: the same run on a list long enough for the    *)
(*                backoff ramp to reach its cap).                          *)
(***************************************************************************)
EXTENDS Integers, Sequences, FiniteSets, TLC

(***************************************************************************)
(* Bounds of the model.                                                    *)
(***************************************************************************)
NumProcs == 2

Procs == 1..NumProcs

\* The session names contended for.  Locks of different names are different files
\* and never interact, so one name (UserAccount.session_name, f'user_{phone}') is
\* followed.
Names == {"user_1"}

\* The process that runs the bot (TelegramBot owns one SessionManager).
Bot == 1

\* The activations of process_file_handler that may be in progress for one user.
NumHandlers == 2

Handlers == 1..NumHandlers

\* The users of the bot: the one who connects the account, and another one.
Sender == 1

Stranger == 2

Users == {Sender, Stranger}

VARIABLES
    dir,          \* dir[n]: inode of the file <session_dir>/<n>.lock, 0 when there is none
    locks,        \* locks[p][n]: SessionManager.locks of process p: inode of the open,
                  \*   flock-ed file object stored under n, 0 when n is not a key
    lock_files,   \* lock_files[p]: the keys of SessionManager.lock_files of process p
    pc,           \* pc[p]: where process p stands inside acquire_lock / release_lock
    cur,          \* cur[p]: the locals of the call in progress (session_name, f)
    ret,          \* the last completed call of any process and what it returned
    orphaned,     \* orphaned[n]: the file at n's path was left locked by a process that
                  \*   died, and nobody has locked or removed it since
    client,       \* UserAccount.client: "none" (None), "down" (a client object that is
                  \*   not connected) or "up" (connected)
    phone_code_hash,  \* UserAccount.phone_code_hash is set
    authorized,   \* what is_user_authorized() answers for the account's session
    last,         \* the last completed method call of the account: what it returned,
                  \*   whether it acquired the lock, created a client, called connect()
    join_count,   \* UserAccount.join_count
    current_delay,    \* UserAccount.current_delay, in milliseconds
    rpc,          \* where join_chats stands: "idle", "iter" (top of the loop), "join"
                  \*   (awaiting the join request), "sleep" (the pacing sleep), "flood"
                  \*   (the flood-wait sleep), "done" (returned)
    chat_links,   \* the argument of join_chats
    existing_chats,   \* the lower-cased usernames of the dialog snapshot
    idx,          \* the loop's position in chat_links (i of enumerate(chat_links, 1))
    results,      \* the results dict
    run_ret,      \* whether join_chats has returned, and whether what it returned has
                  \*   an "error" key
    iter,         \* the current (or last) iteration: its outcome and the sleeps it made
    pacing,       \* the pacing sleeps of this run since its start or its last flood wait
    flooded,      \* a FloodWaitError was met in this run
    dirtyStart,   \* the run found a backoff state other than (0, 10 s) when it started
    tally,        \* what this run has done so far: join requests made, sleeps begun,
                  \*   FloodWaitErrors met for the current link, final statuses emitted,
                  \*   and the requests in the order they were made
    snapshot,     \* what get_dialogs() returned to this run
    raised,       \* the exception the last join request raised, if any
    now,          \* the clock datetime.now() reads, in seconds
    last_status_update, \* join_chats: the time of the last status edit that succeeded
    current_time, \* update_status: the clock as read at the start of the call
    spc,          \* where the status reporting of the run stands
    renders,      \* the times (current_time) of the status edits of the loop that succeeded
    status_failed, \* the kinds of status edit that have raised in this run
    aged,         \* the inodes whose change time (os.path.getctime) is more than max_age_hours ago
    user_accounts, \* TelegramBot.user_accounts: the session whose UserAccount a user is bound to, or "none"
    submitted,    \* the users who have sent the phone number of the session to phone_handler
    session_file, \* the session file user_<phone>.session exists in the sessions directory
    answer,       \* what phone_handler answered to the attempt in progress
    bpc,          \* where TelegramBot.run stands
    webhook_client, \* api/bot.py: the module global client: "none" (None), "created" (constructed, start() not completed), "started"
    clients_created, \* the TelegramClient objects this process has constructed
    wpc,          \* where the request in progress stands: "idle", "get_client", "starting", "handle"
    request_data, \* the kind of update of the request in progress
    got,          \* what get_client() returned to handle_webhook: the state of the client at the return
    responses,    \* the responses handler() has returned, oldest first
    user_states,  \* TelegramBot.user_states[sender]['step'] of one user, "none" when
                  \*   the user has no entry
    hpc,          \* hpc[h]: where the h-th activation of process_file_handler stands
    hidx,         \* hidx[h]: the joins the run of activation h has made
    lines,        \* the lines of the text given to extract_chat_links
    out,          \* the list it returned, each entry with the branch that made it
    again,        \* the list it returned when given that list as its text
    lphase        \* "input", "extracted", "extracted twice"

lockVars == <<dir, locks, lock_files, pc, cur, ret, orphaned>>

acctVars == <<client, phone_code_hash, authorized, last>>

runVars == <<join_count, current_delay, rpc, chat_links, existing_chats, idx, results,
             run_ret, iter, pacing, flooded, dirtyStart, tally, snapshot, raised>>

handlerVars == <<user_states, hpc, hidx>>

linkVars == <<lines, out, again, lphase>>

statusVars == <<now, last_status_update, current_time, spc, renders, status_failed>>

cleanupVars == <<aged>>

botVars == <<user_accounts, submitted, session_file, answer, bpc>>

webVars == <<webhook_client, clients_created, wpc, request_data, got, responses>>

extVars == <<statusVars, cleanupVars, botVars, webVars>>

NoCall == [name |-> "", ino |-> 0]

NoRet == [proc |-> 0, op |-> "none", name |-> "", res |-> FALSE, busy |-> FALSE,
          orphan |-> FALSE]

(***************************************************************************)
(* The file system.  An inode stays in use while a directory entry or an   *)
(* open file refers to it; open(path, 'w') on a missing path makes a new   *)
(* one.  flock(LOCK_EX | LOCK_NB) is granted unless another open file      *)
(* description of the same inode holds the lock: the file objects kept in  *)
(* SessionManager.locks are exactly the open files that hold one.          *)
(***************************************************************************)
InodesInUse ==
    {dir[n] : n \in Names}
        \cup {locks[p][n] : p \in Procs, n \in Names}
        \cup {cur[p].ino : p \in Procs}

MaxInode == Cardinality(Names) + NumProcs * (Cardinality(Names) + 1)

FreshInode == CHOOSE i \in 1..MaxInode : i \notin InodesInUse /\
                  \A j \in 1..MaxInode : j \notin InodesInUse => i <= j

\* open(lock_file, 'w'): the inode the new file object refers to.
OpenW(n) == IF dir[n] # 0 THEN dir[n] ELSE FreshInode

\* Some open file description holds the flock of inode i.
Flocked(i) == \E q \in Procs, m \in Names : locks[q][m] = i

\* Some SessionManager holds the lock of session n (a live holder).
Held(n) == \E q \in Procs : locks[q][n] # 0

Holders(n) == {q \in Procs : locks[q][n] # 0}

(***************************************************************************)
(* acquire_lock, one system call per step.                                 *)
(***************************************************************************)
\* A variant that makes the lock file itself the lock: open(lock_file, 'x'), which
\* fails when the file exists.
AcquireOpenExclusive(p, n) ==
    /\ pc[p] = "idle"
    /\ IF dir[n] # 0
       THEN /\ ret' = [proc |-> p, op |-> "acquire", name |-> n, res |-> FALSE,
                       busy |-> Held(n), orphan |-> orphaned[n]]
            /\ UNCHANGED <<dir, locks, lock_files, pc, cur, orphaned>>
       ELSE /\ dir' = [dir EXCEPT ![n] = OpenW(n)]
            /\ cur' = [cur EXCEPT ![p] = [name |-> n, ino |-> OpenW(n)]]
            /\ pc' = [pc EXCEPT ![p] = "opened"]
            /\ UNCHANGED <<locks, lock_files, ret, orphaned>>

\* f = open(lock_file, 'w')
AcquireOpen(p, n) ==
    /\ pc[p] = "idle"
    /\ dir' = [dir EXCEPT ![n] = OpenW(n)]
    /\ cur' = [cur EXCEPT ![p] = [name |-> n, ino |-> OpenW(n)]]
    /\ pc' = [pc EXCEPT ![p] = "opened"]
    /\ UNCHANGED <<locks, lock_files, ret, orphaned>>

\* What flock(f.fileno(), LOCK_EX | LOCK_NB) answers for the open file of inode i.
FlockGranted(i) == ~Flocked(i)

\* fcntl.flock(...); self.locks[n] = f; self.lock_files[n] = lock_file; return True
\* or IOError: return False (f is dropped, which closes it).
AcquireFlock(p) ==
    /\ pc[p] = "opened"
    /\ LET n == cur[p].name
           i == cur[p].ino
           ok == FlockGranted(i)
       IN /\ locks' = IF ok THEN [locks EXCEPT ![p][n] = i] ELSE locks
          /\ lock_files' = IF ok THEN [lock_files EXCEPT ![p] = @ \cup {n}] ELSE lock_files
          /\ ret' = [proc |-> p, op |-> "acquire", name |-> n, res |-> ok,
                  busy |-> Held(n), orphan |-> orphaned[n] /\ i = dir[n]]
          /\ orphaned' = IF ok THEN [orphaned EXCEPT ![n] = FALSE] ELSE orphaned
    /\ cur' = [cur EXCEPT ![p] = NoCall]
    /\ pc' = [pc EXCEPT ![p] = "idle"]
    /\ UNCHANGED dir

(***************************************************************************)
(* release_lock, one system call per step.                                 *)
(***************************************************************************)
\* A variant without the membership test: the lock file is removed by its path
\* whether or not this manager holds the lock.
ReleaseBeginUnchecked(p, n) ==
    /\ pc[p] = "idle"
    /\ IF locks[p][n] # 0
       THEN /\ locks' = [locks EXCEPT ![p][n] = 0]
            /\ cur' = [cur EXCEPT ![p] = [name |-> n, ino |-> locks[p][n]]]
            /\ pc' = [pc EXCEPT ![p] = "unlocked"]
            /\ UNCHANGED <<dir, lock_files, ret, orphaned>>
       ELSE /\ ret' = [proc |-> p, op |-> "release", name |-> n, res |-> FALSE,
                       busy |-> Held(n), orphan |-> FALSE]
            /\ dir' = [dir EXCEPT ![n] = 0]
            /\ UNCHANGED <<locks, lock_files, pc, cur, orphaned>>

\* if session_name in self.locks: f = self.locks.pop(n); flock(f, LOCK_UN)
\* otherwise the call does nothing.
ReleaseBegin(p, n) ==
    /\ pc[p] = "idle"
    /\ IF locks[p][n] # 0
       THEN /\ locks' = [locks EXCEPT ![p][n] = 0]
            /\ cur' = [cur EXCEPT ![p] = [name |-> n, ino |-> locks[p][n]]]
            /\ pc' = [pc EXCEPT ![p] = "unlocked"]
            /\ UNCHANGED <<dir, lock_files, ret, orphaned>>
       ELSE /\ ret' = [proc |-> p, op |-> "release", name |-> n, res |-> FALSE,
                    busy |-> Held(n), orphan |-> FALSE]
            /\ UNCHANGED <<dir, locks, lock_files, pc, cur, orphaned>>

\* f.close()
ReleaseClose(p) ==
    /\ pc[p] = "unlocked"
    /\ cur' = [cur EXCEPT ![p].ino = 0]
    /\ pc' = [pc EXCEPT ![p] = "closed"]
    /\ UNCHANGED <<dir, locks, lock_files, ret, orphaned>>

\* lock_file = self.lock_files.pop(n, None)
\* if lock_file and os.path.exists(lock_file): os.remove(lock_file)
ReleaseRemove(p) ==
    /\ pc[p] = "closed"
    /\ LET n == cur[p].name
           remove == n \in lock_files[p] /\ dir[n] # 0
       IN /\ lock_files' = [lock_files EXCEPT ![p] = @ \ {n}]
          /\ dir' = IF remove THEN [dir EXCEPT ![n] = 0] ELSE dir
          /\ orphaned' = IF remove THEN [orphaned EXCEPT ![n] = FALSE] ELSE orphaned
          /\ ret' = [proc |-> p, op |-> "release", name |-> n, res |-> TRUE,
                  busy |-> Held(n), orphan |-> FALSE]
    /\ cur' = [cur EXCEPT ![p] = NoCall]
    /\ pc' = [pc EXCEPT ![p] = "idle"]
    /\ UNCHANGED locks

(***************************************************************************)
(* Abnormal termination of process p, at any point: the kernel closes its  *)
(* open files, which drops their flocks; no Python code runs, so the lock  *)
(* files stay on disk.  The process may be started again afterwards.       *)
(***************************************************************************)
Crash(p) ==
    /\ \/ pc[p] # "idle"
       \/ \E n \in Names : locks[p][n] # 0
    /\ locks' = [locks EXCEPT ![p] = [n \in Names |-> 0]]
    /\ lock_files' = [lock_files EXCEPT ![p] = {}]
    /\ pc' = [pc EXCEPT ![p] = "idle"]
    /\ cur' = [cur EXCEPT ![p] = NoCall]
    /\ orphaned' = [n \in Names |->
                       orphaned[n] \/ (locks[p][n] # 0 /\ locks[p][n] = dir[n])]
    /\ UNCHANGED <<dir, ret>>

(***************************************************************************)
(* acquire_lock and release_lock as whole calls, for the bot process: they *)
(* hold no await, so no coroutine of the process runs inside them.  L is   *)
(* the lock state the call starts from, the result the state it leaves.    *)
(***************************************************************************)
LockState == [dir |-> dir, locks |-> locks, lock_files |-> lock_files,
              orphaned |-> orphaned]

acquire_lock(L, p, n) ==
    LET i == IF L.dir[n] # 0 THEN L.dir[n] ELSE FreshInode
        ok == ~(\E q \in Procs, m \in Names : L.locks[q][m] = i)
    IN [ok |-> ok,
        st |-> IF ok
               THEN [L EXCEPT !.dir[n] = i, !.locks[p][n] = i,
                              !.lock_files[p] = @ \cup {n}, !.orphaned[n] = FALSE]
               ELSE [L EXCEPT !.dir[n] = i]]

release_lock(L, p, n) ==
    IF L.locks[p][n] # 0
    THEN LET remove == n \in L.lock_files[p] /\ L.dir[n] # 0
         IN [L EXCEPT !.locks[p][n] = 0, !.lock_files[p] = @ \ {n},
                      !.dir[n] = IF remove THEN 0 ELSE @,
                      !.orphaned[n] = IF remove THEN FALSE ELSE @]
    ELSE L

SetLockState(L) ==
    /\ dir' = L.dir
    /\ locks' = L.locks
    /\ lock_files' = L.lock_files
    /\ orphaned' = L.orphaned
    /\ UNCHANGED <<pc, cur, ret>>

(***************************************************************************)
(* UserAccount: one account object of the bot process.  A method is one    *)
(* step; what the network answers is chosen by the environment.            *)
(***************************************************************************)
session_name == "user_1"

\* The account's SessionManager holds the lock of the account's session.
HoldsLock == locks[Bot][session_name] # 0

NoLast == [op |-> "none", ret |-> "None", acquired |-> FALSE, created |-> FALSE,
           connect |-> "no"]

\* A call of self.client.connect() made now: under the session lock or not.
ConnectCall(L) == IF L.locks[Bot][session_name] # 0 THEN "locked" ELSE "unlocked"

\* The except branch of start_client (lines 195-200), entered at `stage` with the
\* lock acquired: release_lock, then client.disconnect(), then return False; when
\* disconnect() raises, the exception leaves start_client.
StartClientFails(L, stage, discOk, hashSet) ==
    /\ SetLockState(release_lock(L, Bot, session_name))
    /\ IF stage = "connect" \/ discOk
       THEN client' = "down"
       ELSE client' \in {"up", "down"}
    /\ phone_code_hash' = (phone_code_hash \/ hashSet)
    /\ UNCHANGED authorized
    /\ last' = [op |-> "start_client", ret |-> IF discOk THEN "False" ELSE "raises",
                acquired |-> TRUE, created |-> TRUE, connect |-> "locked"]

\* A variant that does not look at what acquire_lock returned.
start_client_unchecked ==
    LET a == acquire_lock(LockState, Bot, session_name)
    IN /\ SetLockState(a.st)
       /\ client' = "up"
       /\ last' = [op |-> "start_client", ret |-> "True", acquired |-> a.ok,
                   created |-> TRUE, connect |-> ConnectCall(a.st)]
       /\ UNCHANGED <<phone_code_hash, authorized>>

start_client ==
    LET a == acquire_lock(LockState, Bot, session_name)
    IN IF ~a.ok
       THEN \* if not self.session_manager.acquire_lock(...): return False
            /\ SetLockState(a.st)
            /\ last' = [op |-> "start_client", ret |-> "False", acquired |-> FALSE,
                        created |-> FALSE, connect |-> "no"]
            /\ UNCHANGED <<client, phone_code_hash, authorized>>
       ELSE \/ \* connect() or is_user_authorized() raises
               \E stage \in {"connect", "auth"}, discOk \in BOOLEAN :
                   StartClientFails(a.st, stage, discOk, FALSE)
            \/ \* the session is authorized already
               /\ authorized
               /\ SetLockState(a.st)
               /\ client' = "up"
               /\ last' = [op |-> "start_client", ret |-> "True", acquired |-> TRUE,
                           created |-> TRUE, connect |-> "locked"]
               /\ UNCHANGED <<phone_code_hash, authorized>>
            \/ \* send_code_request() raises
               /\ ~authorized
               /\ \E discOk \in BOOLEAN : StartClientFails(a.st, "code", discOk, FALSE)
            \/ \* sign_in(code) raises something else than SessionPasswordNeededError
               /\ ~authorized
               /\ \E discOk \in BOOLEAN : StartClientFails(a.st, "sign", discOk, TRUE)
            \/ \* sign_in(code) succeeds, or sign_in(password) does after 2FA was asked
               /\ ~authorized
               /\ SetLockState(a.st)
               /\ client' = "up"
               /\ phone_code_hash' = TRUE
               /\ authorized' = TRUE
               /\ last' = [op |-> "start_client", ret |-> "True", acquired |-> TRUE,
                           created |-> TRUE, connect |-> "locked"]
            \/ \* 2FA password refused and the operator gives up (lines 188-190)
               /\ ~authorized
               /\ SetLockState(release_lock(a.st, Bot, session_name))
               /\ client' = "up"
               /\ phone_code_hash' = TRUE
               /\ UNCHANGED authorized
               /\ last' = [op |-> "start_client", ret |-> "False", acquired |-> TRUE,
                           created |-> TRUE, connect |-> "locked"]

\* send_code (lines 202-248), entered with the client in state c0; `op` names the
\* method that returns (sign_in falls into send_code when the code has expired).
SendCodeFrom(c0, op, conn0) ==
    LET created == c0 = "none"
        conn == IF c0 = "up" THEN conn0 ELSE ConnectCall(LockState)
        done(r) == [op |-> op, ret |-> r, acquired |-> FALSE, created |-> created,
                    connect |-> conn]
    IN \/ \* connect() raises: except, client.disconnect(), return False
          /\ c0 # "up"
          /\ client' = "down"
          /\ last' = done("False")
          /\ UNCHANGED <<phone_code_hash, authorized>>
       \/ \* already authorized: return True
          /\ authorized
          /\ client' = "up"
          /\ last' = done("True")
          /\ UNCHANGED <<phone_code_hash, authorized>>
       \/ \* the code is sent
          /\ ~authorized
          /\ client' = "up"
          /\ phone_code_hash' = TRUE
          /\ last' = done("True")
          /\ UNCHANGED authorized
       \/ \* no usable answer, PhoneNumberInvalidError or FloodWaitError: return False
          /\ ~authorized
          /\ client' = "up"
          /\ last' = done("False")
          /\ UNCHANGED <<phone_code_hash, authorized>>
       \/ \* any other exception: client.disconnect(), return False
          /\ client' = "down"
          /\ last' = done("False")
          /\ UNCHANGED <<phone_code_hash, authorized>>

send_code ==
    /\ SendCodeFrom(client, "send_code", "no")
    /\ UNCHANGED lockVars

sign_in ==
    LET conn == IF client = "down" THEN ConnectCall(LockState) ELSE "no"
        done(r) == [op |-> "sign_in", ret |-> r, acquired |-> FALSE, created |-> FALSE,
                    connect |-> conn]
    IN /\ UNCHANGED lockVars
       /\ IF client = "none"
          THEN /\ last' = [op |-> "sign_in", ret |-> "False", acquired |-> FALSE,
                           created |-> FALSE, connect |-> "no"]
               /\ UNCHANGED <<client, phone_code_hash, authorized>>
          ELSE \/ \* connect() raises: return False
                  /\ client = "down"
                  /\ last' = done("False")
                  /\ UNCHANGED <<client, phone_code_hash, authorized>>
               \/ \* no phone_code_hash: return False
                  /\ ~phone_code_hash
                  /\ client' = "up"
                  /\ last' = done("False")
                  /\ UNCHANGED <<phone_code_hash, authorized>>
               \/ \* signed in
                  /\ phone_code_hash
                  /\ client' = "up"
                  /\ authorized' = TRUE
                  /\ last' = done("True")
                  /\ UNCHANGED phone_code_hash
               \/ \* SessionPasswordNeededError or another error: return False
                  /\ phone_code_hash
                  /\ client' = "up"
                  /\ last' = done("False")
                  /\ UNCHANGED <<phone_code_hash, authorized>>
               \/ \* "phone code expired": return await self.send_code()
                  /\ phone_code_hash
                  /\ SendCodeFrom("up", "sign_in", conn)

\* disconnect (lines 283-297)
disconnect ==
    IF client = "none"
    THEN /\ last' = [op |-> "disconnect", ret |-> "None", acquired |-> FALSE,
                     created |-> FALSE, connect |-> "no"]
         /\ UNCHANGED <<client, phone_code_hash, authorized>>
         /\ UNCHANGED lockVars
    ELSE \/ \* client.disconnect() returns
            /\ client' = "none"
            /\ phone_code_hash' = FALSE
            /\ SetLockState(release_lock(LockState, Bot, session_name))
            /\ last' = [op |-> "disconnect", ret |-> "None", acquired |-> FALSE,
                        created |-> FALSE, connect |-> "no"]
            /\ UNCHANGED authorized
         \/ \* client.disconnect() raises: logged, nothing else runs
            /\ last' = [op |-> "disconnect", ret |-> "None", acquired |-> FALSE,
                        created |-> FALSE, connect |-> "no"]
            /\ UNCHANGED <<client, phone_code_hash, authorized>>
            /\ UNCHANGED lockVars

\* get_account_info (lines 299-354)
get_account_info ==
    LET conn == IF client = "down" THEN ConnectCall(LockState) ELSE "no"
        done(r) == [op |-> "get_account_info", ret |-> r, acquired |-> FALSE,
                    created |-> FALSE, connect |-> conn]
    IN /\ UNCHANGED lockVars
       /\ UNCHANGED <<phone_code_hash, authorized>>
       /\ IF client = "none"
          THEN /\ last' = done("None")
               /\ UNCHANGED client
          ELSE \/ \* connect() raises
                  /\ client = "down"
                  /\ last' = done("None")
                  /\ UNCHANGED client
               \/ \* not authorized, or a later request raises
                  /\ client' = "up"
                  /\ last' = done("None")
               \/ /\ authorized
                  /\ client' = "up"
                  /\ last' = done("info")

\* The connection is lost (the client object stays).
ConnectionLost ==
    /\ client = "up"
    /\ client' = "down"
    /\ UNCHANGED <<phone_code_hash, authorized, last>>
    /\ UNCHANGED lockVars

(***************************************************************************)
(* join_chats.  Durations are in milliseconds; current_delay * 1.1 is      *)
(* taken to the millisecond below.                                         *)
(***************************************************************************)
MaxTargets == 4

RampTargets == 28

RampFaults == 1

BaseDelay == 10000

SecondDelay == 60000

MaxDelay == 600000

\* e.seconds of the FloodWaitError the environment may raise.
FloodWaits == {30000, 120000}

Min(x, y) == IF x <= y THEN x ELSE y

\* A name as written: which name, whether in capitals, whether a '+' precedes it.
\* The last path segment of a link, link.split('/')[-1], is one, a username is one.
\* lower() of it.
Lower(seg) == [seg EXCEPT !.upper = FALSE]

\* The k-th link of the file: public and invite links alternate, two spellings of
\* each name: https://t.me/Name1, https://t.me/joinchat/name1, https://t.me/name2,
\* https://t.me/joinchat/Name2, ...
LinkAt(k) == [priv |-> k % 2 = 0,
              seg |-> [name |-> (k + 1) \div 2, upper |-> k % 4 \in {0, 1},
                       plus |-> FALSE]]

\* Lines 610-615: the request join_chats makes for a link: ImportChatInviteRequest
\* when the link contains '/joinchat/' or '+', JoinChannelRequest otherwise.
JoinKind(link) == IF link.priv \/ link.seg.plus THEN "import" ELSE "join"

\* The lists join_chats is given: the links of a file of MaxTargets lines, any of
\* them left out (extract_chat_links yields no link twice).
RECURSIVE SubLists(_)
SubLists(k) ==
    IF k = 0 THEN {<<>>}
    ELSE LET shorter == SubLists(k - 1)
         IN shorter \cup {Append(l, LinkAt(k)) : l \in shorter}

Targets == SubLists(MaxTargets)

\* The one long list of SpecRamp.
RampList == [k \in 1..RampTargets |-> LinkAt(k)]

\* The dialog snapshots get_dialogs() may return. A dialog has a username (name 0:
\* None) and is a channel or not. The account is in no dialog; or in the channel
\* NAME2 and a channel without username; or in a chat with the user Name1.
DialogSnapshots ==
    { {},
      { [username |-> [name |-> 2, upper |-> TRUE, plus |-> FALSE], is_channel |-> TRUE],
        [username |-> [name |-> 0, upper |-> FALSE, plus |-> FALSE], is_channel |-> TRUE] },
      { [username |-> [name |-> 1, upper |-> TRUE, plus |-> FALSE], is_channel |-> FALSE] } }

\* A variant that takes the username of every dialog, channel or not.
ExistingChatsAll(dialogs) ==
    {Lower(d.username) : d \in {x \in dialogs : x.username.name # 0}}

\* Line 543: the lower-cased usernames of the dialogs that are channels and have one.
ExistingChats(dialogs) ==
    {Lower(d.username) : d \in {x \in dialogs : x.is_channel /\ x.username.name # 0}}

\* No exception.
NoError == [type |-> "none", seconds |-> 0, captcha |-> FALSE]

\* What a join request may raise: FloodWaitError or another exception, with a
\* message that has the word captcha in it or not.
Errors ==
    [type : {"FloodWaitError"}, seconds : FloodWaits, captcha : BOOLEAN]
        \cup [type : {"Exception"}, seconds : {0}, captcha : BOOLEAN]

\* How many join requests of one run the environment lets fail: any on a short
\* list, RampFaults on the long one.
FaultBudget(n) == IF n > MaxTargets THEN RampFaults ELSE n

MayFail == results.failed < FaultBudget(Len(chat_links))

NoResults == [success |-> 0, failed |-> 0, failed_chats |-> <<>>,
              captcha_required |-> <<>>, captcha_screenshots |-> <<>>,
              captcha_solved |-> <<>>, already_member |-> 0]

NoIter == [outcome |-> "none", wait |-> 0, sleeps |-> <<>>]

\* join_chats has not returned. why: how the call ended; at: the await it was
\* cancelled at.
NoRun == [returned |-> FALSE, has_error |-> FALSE, why |-> "none", at |-> ""]

NoTally == [joins |-> 0, sleeps |-> 0, floods |-> 0, finals |-> 0, order |-> <<>>]

\* A variant that counts the dialogs the list names, not the links that name them.
AlreadyMemberNames(links, chats) ==
    Cardinality({Lower(links[k].seg) : k \in DOMAIN links} \cap chats)

\* Lines 546-552: the links whose last segment, lower-cased, is a dialog username.
AlreadyMember(links, chats) ==
    Cardinality({k \in DOMAIN links : Lower(links[k].seg) \in chats})

\* A variant without the finally clause: the dict of the return statement, with its
\* "error" key, is what the caller gets.
ReturnEarlyError(links, c, conn, why) ==
    /\ rpc' = "done"
    /\ chat_links' = links
    /\ existing_chats' = {}
    /\ snapshot' = {}
    /\ raised' = NoError
    /\ idx' = 0
    /\ results' = NoResults
    /\ run_ret' = [returned |-> TRUE, has_error |-> TRUE, why |-> why, at |-> ""]
    /\ tally' = NoTally
    /\ iter' = NoIter
    /\ pacing' = <<>>
    /\ flooded' = FALSE
    /\ dirtyStart' = FALSE
    /\ client' = c
    /\ last' = [op |-> "join_chats", ret |-> "error", acquired |-> FALSE,
                created |-> FALSE, connect |-> conn]
    /\ UNCHANGED <<join_count, current_delay, phone_code_hash, authorized>>

\* join_chats returns before its loop (lines 528-539, 694-698): whatever the return
\* statement names, the finally clause returns the results dict.
ReturnEarly(links, c, conn, why) ==
    /\ rpc' = "done"
    /\ chat_links' = links
    /\ existing_chats' = {}
    /\ snapshot' = {}
    /\ raised' = NoError
    /\ idx' = 0
    /\ results' = NoResults
    /\ run_ret' = [returned |-> TRUE, has_error |-> FALSE, why |-> why, at |-> ""]
    /\ tally' = NoTally
    /\ iter' = NoIter
    /\ pacing' = <<>>
    /\ flooded' = FALSE
    /\ dirtyStart' = FALSE
    /\ client' = c
    /\ last' = [op |-> "join_chats", ret |-> "results", acquired |-> FALSE,
                created |-> FALSE, connect |-> conn]
    /\ UNCHANGED <<join_count, current_delay, phone_code_hash, authorized>>

\* join_chats up to its loop (lines 517-559). get_dialogs() is the last call before
\* the loop: a run that returns earlier has taken no snapshot (dialogs is empty).
StartRun(links, dialogs) ==
    /\ rpc \in {"idle", "done"}
    /\ UNCHANGED lockVars
    /\ IF links = <<>> \/ client = "none"
       THEN /\ dialogs = {}
            /\ ReturnEarly(links, client, "no",
                           IF links = <<>> THEN "empty" ELSE "no_client")
       ELSE LET conn == IF client = "down" THEN ConnectCall(LockState) ELSE "no"
            IN \/ \* connect() raises
                  /\ client = "down"
                  /\ dialogs = {}
                  /\ ReturnEarly(links, "down", conn, "error")
               \/ \* is_user_authorized() answers False
                  /\ ~authorized
                  /\ dialogs = {}
                  /\ ReturnEarly(links, "up", conn, "not_authorized")
               \/ \* is_user_authorized() or get_dialogs() raises
                  /\ dialogs = {}
                  /\ ReturnEarly(links, "up", conn, "error")
               \/ \* the loop is entered
                  /\ authorized
                  /\ client' = "up"
                  /\ chat_links' = links
                  /\ snapshot' = dialogs
                  /\ raised' = NoError
                  /\ existing_chats' = ExistingChats(dialogs)
                  /\ results' = [NoResults EXCEPT
                                     !.already_member =
                                         AlreadyMember(links, ExistingChats(dialogs))]
                  /\ join_count' = 0
                  /\ current_delay' = BaseDelay
                  /\ idx' = 1
                  /\ rpc' = "iter"
                  /\ run_ret' = NoRun
                  /\ tally' = NoTally
                  /\ iter' = NoIter
                  /\ pacing' = <<>>
                  /\ flooded' = FALSE
                  /\ dirtyStart' = (join_count # 0 \/ current_delay # BaseDelay)
                  /\ last' = [op |-> "join_chats", ret |-> "running", acquired |-> FALSE,
                              created |-> FALSE, connect |-> conn]
                  /\ UNCHANGED <<phone_code_hash, authorized>>

\* The top of an iteration (lines 579-607): a link found in the dialogs is passed
\* over, any other gets its join request.
IterBegin ==
    /\ rpc = "iter"
    /\ idx <= Len(chat_links)
    /\ IF Lower(chat_links[idx].seg) \in existing_chats
       THEN /\ idx' = idx + 1
            /\ iter' = [outcome |-> "skip", wait |-> 0, sleeps |-> <<>>]
            /\ UNCHANGED <<rpc, tally>>
       ELSE /\ rpc' = "join"
            /\ iter' = NoIter
            /\ tally' = [tally EXCEPT
                             !.joins = @ + 1,
                             !.floods = 0,
                             !.order = Append(@, [pos |-> idx,
                                                  kind |-> JoinKind(chat_links[idx])])]
            /\ UNCHANGED idx
    /\ UNCHANGED <<join_count, current_delay, chat_links, existing_chats, results,
                   run_ret, pacing, flooded, dirtyStart>>
    /\ UNCHANGED <<lockVars, acctVars>>
    /\ raised' = NoError
    /\ UNCHANGED snapshot

\* A variant without the cap of 600 s.
NextDelayUncapped(n, delay) ==
    IF n = 1 THEN BaseDelay
    ELSE IF n = 2 THEN SecondDelay
    ELSE (delay * 11) \div 10

\* Lines 621-626: the delay after the n-th join of the run.
NextDelay(n, delay) ==
    IF n = 1 THEN BaseDelay
    ELSE IF n = 2 THEN SecondDelay
    ELSE Min(MaxDelay, (delay * 11) \div 10)

\* The join request returns (lines 617-629): counted, then the pacing sleep.
JoinSucceeds ==
    /\ rpc = "join"
    /\ results' = [results EXCEPT !.success = @ + 1]
    /\ join_count' = join_count + 1
    /\ current_delay' = NextDelay(join_count + 1, current_delay)
    /\ iter' = [outcome |-> "joined", wait |-> 0,
                sleeps |-> <<NextDelay(join_count + 1, current_delay)>>]
    /\ pacing' = Append(pacing, NextDelay(join_count + 1, current_delay))
    /\ rpc' = "sleep"
    /\ tally' = [tally EXCEPT !.sleeps = @ + 1]
    /\ UNCHANGED <<chat_links, existing_chats, idx, run_ret, flooded, dirtyStart>>
    /\ UNCHANGED <<lockVars, acctVars>>
    /\ UNCHANGED <<snapshot, raised>>

\* asyncio.sleep(self.current_delay) returns (line 629).
SleepReturns ==
    /\ rpc = "sleep"
    /\ idx' = idx + 1
    /\ rpc' = "iter"
    /\ UNCHANGED <<join_count, current_delay, chat_links, existing_chats, results,
                   run_ret, iter, pacing, flooded, dirtyStart, tally>>
    /\ UNCHANGED <<lockVars, acctVars>>
    /\ UNCHANGED <<snapshot, raised>>

\* A variant that sleeps e.seconds and then the pacing delay as well.
JoinFloodWaitPaced(w) ==
    /\ rpc = "join"
    /\ MayFail
    /\ results' = [results EXCEPT
                       !.failed_chats = Append(@, [link |-> chat_links[idx],
                                                   error |-> "wait"]),
                       !.failed = @ + 1]
    /\ iter' = [outcome |-> "flood", wait |-> w, sleeps |-> <<w, current_delay>>]
    /\ pacing' = <<>>
    /\ flooded' = TRUE
    /\ rpc' = "flood"
    /\ tally' = [tally EXCEPT !.sleeps = @ + 1, !.floods = @ + 1]
    /\ UNCHANGED <<join_count, current_delay, chat_links, existing_chats, idx, run_ret,
                   dirtyStart>>
    /\ UNCHANGED <<lockVars, acctVars>>
    /\ UNCHANGED snapshot

\* The join request raises FloodWaitError (lines 631-646): recorded as a failure,
\* then the sleep of e.seconds.
JoinFloodWait(w) ==
    /\ rpc = "join"
    /\ MayFail
    /\ results' = [results EXCEPT
                       !.failed_chats = Append(@, [link |-> chat_links[idx],
                                                   error |-> "wait"]),
                       !.failed = @ + 1]
    /\ iter' = [outcome |-> "flood", wait |-> w, sleeps |-> <<w>>]
    /\ pacing' = <<>>
    /\ flooded' = TRUE
    /\ rpc' = "flood"
    /\ tally' = [tally EXCEPT !.sleeps = @ + 1, !.floods = @ + 1]
    /\ UNCHANGED <<join_count, current_delay, chat_links, existing_chats, idx, run_ret,
                   dirtyStart>>
    /\ UNCHANGED <<lockVars, acctVars>>
    /\ UNCHANGED snapshot

\* A variant that tries the same link again after the flood wait.
FloodSleepRetries ==
    /\ rpc = "flood"
    /\ current_delay' = BaseDelay
    /\ rpc' = "iter"
    /\ UNCHANGED <<join_count, chat_links, existing_chats, idx, results, run_ret, iter,
                   pacing, flooded, dirtyStart, tally>>
    /\ UNCHANGED <<lockVars, acctVars>>
    /\ UNCHANGED <<snapshot, raised>>

\* asyncio.sleep(wait_time) returns (lines 646-648).
FloodSleepReturns ==
    /\ rpc = "flood"
    /\ current_delay' = BaseDelay
    /\ idx' = idx + 1
    /\ rpc' = "iter"
    /\ UNCHANGED <<join_count, chat_links, existing_chats, results, run_ret, iter,
                   pacing, flooded, dirtyStart, tally>>
    /\ UNCHANGED <<lockVars, acctVars>>
    /\ UNCHANGED <<snapshot, raised>>

\* A variant that also files the captcha link under failed_chats.
JoinCaptchaBoth ==
    /\ rpc = "join"
    /\ MayFail
    /\ results' = [results EXCEPT
                       !.captcha_required = Append(@, chat_links[idx]),
                       !.failed_chats = Append(@, [link |-> chat_links[idx],
                                                   error |-> "error"]),
                       !.failed = @ + 1]
    /\ iter' = [outcome |-> "captcha", wait |-> 0, sleeps |-> <<>>]
    /\ idx' = idx + 1
    /\ rpc' = "iter"
    /\ UNCHANGED <<join_count, current_delay, chat_links, existing_chats, run_ret,
                   pacing, flooded, dirtyStart, tally>>
    /\ UNCHANGED <<lockVars, acctVars>>
    /\ UNCHANGED snapshot

\* The join request raises an error that names a captcha (lines 650-655).
JoinCaptcha ==
    /\ rpc = "join"
    /\ MayFail
    /\ results' = [results EXCEPT
                       !.captcha_required = Append(@, chat_links[idx]),
                       !.failed = @ + 1]
    /\ iter' = [outcome |-> "captcha", wait |-> 0, sleeps |-> <<>>]
    /\ idx' = idx + 1
    /\ rpc' = "iter"
    /\ UNCHANGED <<join_count, current_delay, chat_links, existing_chats, run_ret,
                   pacing, flooded, dirtyStart, tally>>
    /\ UNCHANGED <<lockVars, acctVars>>
    /\ UNCHANGED snapshot

\* A variant in which the error ends the run: recorded, then join_chats returns.
JoinFailsAborts ==
    /\ rpc = "join"
    /\ MayFail
    /\ results' = [results EXCEPT
                       !.failed_chats = Append(@, [link |-> chat_links[idx],
                                                   error |-> "error"]),
                       !.failed = @ + 1]
    /\ iter' = [outcome |-> "failed", wait |-> 0, sleeps |-> <<>>]
    /\ rpc' = "done"
    /\ run_ret' = [returned |-> TRUE, has_error |-> FALSE, why |-> "error", at |-> ""]
    /\ UNCHANGED <<join_count, current_delay, chat_links, existing_chats, idx,
                   pacing, flooded, dirtyStart, tally>>
    /\ UNCHANGED <<lockVars, acctVars>>
    /\ UNCHANGED snapshot

\* A variant that paces failures as it paces joins.
JoinFailsPaced ==
    /\ rpc = "join"
    /\ MayFail
    /\ results' = [results EXCEPT
                       !.failed_chats = Append(@, [link |-> chat_links[idx],
                                                   error |-> "error"]),
                       !.failed = @ + 1]
    /\ iter' = [outcome |-> "failed", wait |-> 0, sleeps |-> <<current_delay>>]
    /\ tally' = [tally EXCEPT !.sleeps = @ + 1]
    /\ rpc' = "sleep"
    /\ UNCHANGED <<join_count, current_delay, chat_links, existing_chats, idx, run_ret,
                   pacing, flooded, dirtyStart>>
    /\ UNCHANGED <<lockVars, acctVars>>
    /\ UNCHANGED snapshot

\* The join request raises any other error (lines 656-665).
JoinFails ==
    /\ rpc = "join"
    /\ MayFail
    /\ results' = [results EXCEPT
                       !.failed_chats = Append(@, [link |-> chat_links[idx],
                                                   error |-> "error"]),
                       !.failed = @ + 1]
    /\ iter' = [outcome |-> "failed", wait |-> 0, sleeps |-> <<>>]
    /\ idx' = idx + 1
    /\ rpc' = "iter"
    /\ UNCHANGED <<join_count, current_delay, chat_links, existing_chats, run_ret,
                   pacing, flooded, dirtyStart, tally>>
    /\ UNCHANGED <<lockVars, acctVars>>
    /\ UNCHANGED snapshot

\* A variant that reads the message before the type of the exception.
JoinRaisesByMessage(e) ==
    /\ raised' = e
    /\ IF e.captcha THEN JoinCaptcha
       ELSE IF e.type = "FloodWaitError" THEN JoinFloodWait(e.seconds)
       ELSE JoinFails

\* The join request raises e (lines 631, 650-652): the except clauses are tried in
\* order, FloodWaitError first, then Exception with the test of "captcha" in the
\* lower-cased message.
JoinRaises(e) ==
    /\ raised' = e
    /\ IF e.type = "FloodWaitError" THEN JoinFloodWait(e.seconds)
       ELSE IF e.captcha THEN JoinCaptcha
       ELSE JoinFails

\* The loop is over (lines 675-698): the final status, and the results are returned.
FinishRun ==
    /\ rpc = "iter"
    /\ idx > Len(chat_links)
    /\ rpc' = "done"
    /\ run_ret' = [returned |-> TRUE, has_error |-> FALSE, why |-> "finished", at |-> ""]
    /\ tally' = [tally EXCEPT !.finals = @ + 1]
    /\ last' = [last EXCEPT !.ret = "results"]
    /\ UNCHANGED <<join_count, current_delay, chat_links, existing_chats, idx, results,
                   iter, pacing, flooded, dirtyStart>>
    /\ UNCHANGED <<client, phone_code_hash, authorized>>
    /\ UNCHANGED lockVars
    /\ raised' = NoError
    /\ UNCHANGED snapshot

\* A variant without the finally clause: CancelledError leaves join_chats and the
\* caller gets no value.
CancelPropagates ==
    /\ rpc \in {"join", "sleep", "flood"}
    /\ rpc' = "done"
    /\ run_ret' = [returned |-> FALSE, has_error |-> FALSE, why |-> "cancelled",
                   at |-> rpc]
    /\ last' = [last EXCEPT !.ret = "CancelledError"]
    /\ UNCHANGED <<join_count, current_delay, chat_links, existing_chats, idx, results,
                   iter, pacing, flooded, dirtyStart, tally>>
    /\ UNCHANGED <<client, phone_code_hash, authorized>>
    /\ UNCHANGED lockVars
    /\ UNCHANGED <<snapshot, raised>>

\* The task running join_chats is cancelled while it awaits the join request, the
\* pacing sleep or the flood-wait sleep: CancelledError is raised there, no except
\* clause of the function catches it (they name Exception), and the finally clause
\* (lines 697-698) returns the results dict, which ends the exception.
Cancel ==
    /\ rpc \in {"join", "sleep", "flood"}
    /\ rpc' = "done"
    /\ run_ret' = [returned |-> TRUE, has_error |-> FALSE, why |-> "cancelled",
                   at |-> rpc]
    /\ last' = [last EXCEPT !.ret = "results"]
    /\ UNCHANGED <<join_count, current_delay, chat_links, existing_chats, idx, results,
                   iter, pacing, flooded, dirtyStart, tally>>
    /\ UNCHANGED <<client, phone_code_hash, authorized>>
    /\ UNCHANGED lockVars
    /\ raised' = NoError
    /\ UNCHANGED snapshot

(***************************************************************************)
(* extract_chat_links.  A line of the text is a prefix and a name as       *)
(* written; the names themselves hold neither "joinchat" nor '+'.  A link  *)
(* is what join_chats takes: whether it has "/joinchat/", its last name,   *)
(* and whether a '/' follows that name.                                    *)
(***************************************************************************)
MaxLines == 3

\* What a line may begin with. "@+" stands for "@+name", "t.me/+" for "t.me/+name".
LinePrefixes == {"@", "", "https://t.me/", "https://t.me/joinchat/", "t.me/+", "@+"}

\* An empty line (or one of spaces only: line.strip() leaves nothing).
Blank == [prefix |-> "", id |-> [name |-> 0, upper |-> FALSE], tail |-> ""]

\* The lines: the names Foo, foo and bar behind every prefix; the empty line; "@"
\* alone; and the addresses https://t.me/foo/ and https://t.me/bar/, written with a
\* closing '/'.
LineSet ==
    {Blank, [prefix |-> "@", id |-> [name |-> 0, upper |-> FALSE], tail |-> ""]} \cup
    [prefix : LinePrefixes,
     id : {[name |-> 1, upper |-> TRUE], [name |-> 1, upper |-> FALSE],
           [name |-> 2, upper |-> FALSE]},
     tail : {""}] \cup
    [prefix : {"https://t.me/"},
     id : {[name |-> 1, upper |-> FALSE], [name |-> 2, upper |-> FALSE]},
     tail : {"/"}]

\* Line 368: 'joinchat' in line or '+' in line.
HasMarker(line) ==
    line.prefix \in {"https://t.me/joinchat/", "t.me/+", "https://t.me/+", "@+"}

\* Line 369: the search for (t|telegram).me/(joinchat/|+)<hash> finds a match.
RegexMatches(line) ==
    line.prefix \in {"https://t.me/joinchat/", "t.me/+", "https://t.me/+"}

NoEntry == [class |-> "none",
            link |-> [priv |-> FALSE, seg |-> [name |-> 0, upper |-> FALSE, plus |-> FALSE],
                      slash |-> FALSE]]

\* Lines 363-392 for one line: the link it gives and the branch that gave it. A
\* line with nothing behind "@" gives no link (line 388); the invite pattern stops
\* at the end of the hash, the public branch keeps all that follows the prefix.
ExtractLine(line) ==
    IF line.id.name = 0 THEN NoEntry
    ELSE IF HasMarker(line) /\ RegexMatches(line)
    THEN [class |-> "private",
          link |-> [priv |-> TRUE,
                    seg |-> [name |-> line.id.name, upper |-> line.id.upper,
                             plus |-> FALSE],
                    slash |-> FALSE]]
    ELSE [class |-> "public",
          link |-> [priv |-> FALSE,
                    seg |-> [name |-> line.id.name, upper |-> line.id.upper,
                             plus |-> line.prefix \in {"@+", "https://t.me/+"}],
                    slash |-> line.tail = "/"]]

\* Lines 589, 611 and 614: link.split('/')[-1], the text behind the last '/' of the
\* link, which join_chats looks up in the dialogs and sends in its request; name 0
\* is the empty string.
LastSegment(link) ==
    IF link.slash THEN [name |-> 0, upper |-> FALSE, plus |-> FALSE] ELSE link.seg

\* A variant in which a repeated link moves to the end of the list.
RECURSIVE extract_chat_links_last(_)
extract_chat_links_last(ls) ==
    IF ls = <<>> THEN <<>>
    ELSE LET before == extract_chat_links_last(SubSeq(ls, 1, Len(ls) - 1))
             e == ExtractLine(ls[Len(ls)])
         IN IF e.class = "none" THEN before
            ELSE Append(SelectSeq(before, LAMBDA x : x.link # e.link), e)

\* extract_chat_links (lines 356-395): line by line, a link is appended unless it
\* is in seen_links already.
RECURSIVE extract_chat_links(_)
extract_chat_links(ls) ==
    IF ls = <<>> THEN <<>>
    ELSE LET before == extract_chat_links(SubSeq(ls, 1, Len(ls) - 1))
             e == ExtractLine(ls[Len(ls)])
         IN IF e.class = "none" \/ \E i \in DOMAIN before : before[i].link = e.link
            THEN before
            ELSE Append(before, e)

\* A link of the list as a line of text: "https://t.me/joinchat/<seg>" or
\* "https://t.me/<seg>", the segment with its '+' if it has one.
LineOf(link) ==
    [prefix |-> IF link.priv THEN "https://t.me/joinchat/"
                ELSE IF link.seg.plus THEN "https://t.me/+"
                ELSE "https://t.me/",
     id |-> [name |-> link.seg.name, upper |-> link.seg.upper],
     tail |-> IF link.slash THEN "/" ELSE ""]

\* extract_chat_links is called on the text.
Extract ==
    /\ lphase = "input"
    /\ out' = extract_chat_links(lines)
    /\ lphase' = "extracted"
    /\ UNCHANGED <<lines, again>>

\* extract_chat_links is called on the list it returned, joined with newlines.
ExtractAgain ==
    /\ lphase = "extracted"
    /\ again' = extract_chat_links([k \in DOMAIN out |-> LineOf(out[k].link)])
    /\ lphase' = "extracted twice"
    /\ UNCHANGED <<lines, out>>

(***************************************************************************)
(* The bot's handlers for one user whose account is connected.  Telethon   *)
(* runs every activation of a handler as a task of its own: while one      *)
(* awaits, others run.  A run of join_chats is kept to what it shares with *)
(* other runs on the account: join_count and current_delay.                *)
(***************************************************************************)
\* The joins one run may make.
RunLen == 2

runLocals == <<rpc, chat_links, existing_chats, idx, results, run_ret, iter, pacing,
               flooded, dirtyStart, tally, snapshot, raised>>

\* upload_channels_handler (lines 910-937): the user presses the upload button;
\* the step becomes 'waiting_file' whatever it was.
upload_channels_handler ==
    /\ user_states' = "waiting_file"
    /\ UNCHANGED <<hpc, hidx, join_count, current_delay>>

\* process_file_handler up to its try (lines 940-955): a file arrives. Without the
\* step 'waiting_file' the handler answers and returns; with it the step becomes
\* 'processing_file'.
FileReceived(h) ==
    /\ hpc[h] = "idle"
    /\ user_states = "waiting_file"
    /\ user_states' = "processing_file"
    /\ hpc' = [hpc EXCEPT ![h] = "setup"]
    /\ UNCHANGED <<hidx, join_count, current_delay>>

\* The finally clause of process_file_handler (lines 1047-1050).
ClearState == user_states' = "none"

\* Lines 957-1010: the file is read and the links extracted; with no link, or on
\* an exception, the handler ends; otherwise join_chats is called and starts its
\* loop (lines 556-557).
SetupDone(h) ==
    /\ hpc[h] = "setup"
    /\ \/ /\ ClearState
          /\ hpc' = [hpc EXCEPT ![h] = "idle"]
          /\ UNCHANGED <<hidx, join_count, current_delay>>
       \/ /\ hpc' = [hpc EXCEPT ![h] = "run"]
          /\ hidx' = [hidx EXCEPT ![h] = 0]
          /\ join_count' = 0
          /\ current_delay' = BaseDelay
          /\ UNCHANGED user_states

\* A join of the run of activation h (lines 617-629).
RunJoin(h) ==
    /\ hpc[h] = "run"
    /\ hidx[h] < RunLen
    /\ hidx' = [hidx EXCEPT ![h] = @ + 1]
    /\ join_count' = join_count + 1
    /\ current_delay' = NextDelay(join_count + 1, current_delay)
    /\ UNCHANGED <<user_states, hpc>>

\* join_chats returns to the handler (line 1010).
RunEnds(h) ==
    /\ hpc[h] = "run"
    /\ hpc' = [hpc EXCEPT ![h] = "reply"]
    /\ UNCHANGED <<user_states, hidx, join_count, current_delay>>

\* The handler answers and ends (lines 1012-1050).
HandlerEnds(h) ==
    /\ hpc[h] = "reply"
    /\ ClearState
    /\ hpc' = [hpc EXCEPT ![h] = "idle"]
    /\ UNCHANGED <<hidx, join_count, current_delay>>

(***************************************************************************)
(* The status message of a run.  update_status is called at the top of     *)
(* every iteration that makes a join request and after a FloodWaitError;   *)
(* the final status is sent when the list is gone through.  The clock      *)
(* moves at any time, also while an edit is awaited.                       *)
(***************************************************************************)
\* Line 567: the least number of seconds between two edits.
StatusInterval == 2

\* The clock stops here.
MaxClock == 5

\* The length of the list of the run.
StatusTargets == 2

StatusList == [k \in 1..StatusTargets |-> LinkAt(k)]

\* A second passes.
Tick ==
    /\ now < MaxClock
    /\ now' = now + 1
    /\ UNCHANGED <<last_status_update, current_time, spc, renders, status_failed>>

\* Line 558: last_status_update = datetime.now(), before the loop.
StatusReset ==
    /\ last_status_update' = now
    /\ current_time' = now
    /\ spc' = "none"
    /\ renders' = <<>>
    /\ status_failed' = {}
    /\ UNCHANGED now

\* A variant that edits the message at every call.
update_status_unthrottled ==
    /\ spc = "call"
    /\ current_time' = now
    /\ spc' = "editing"
    /\ UNCHANGED <<now, last_status_update, renders, status_failed>>
    /\ UNCHANGED runVars

\* update_status up to its await (lines 561-571): the clock is read; less than 2 s
\* after the last edit the call returns, otherwise edit_message is sent.
update_status ==
    /\ spc = "call"
    /\ current_time' = now
    /\ spc' = IF now - last_status_update < StatusInterval THEN "none" ELSE "editing"
    /\ UNCHANGED <<now, last_status_update, renders, status_failed>>
    /\ UNCHANGED runVars

\* edit_message returns (lines 571-572): the time read at the start of the call
\* becomes last_status_update.
EditReturns ==
    /\ spc = "editing"
    /\ last_status_update' = current_time
    /\ renders' = Append(renders, current_time)
    /\ spc' = "none"
    /\ UNCHANGED <<now, current_time, status_failed>>
    /\ UNCHANGED runVars

\* A variant without the try of update_status: the exception of edit_message
\* reaches the except clause of the loop body (lines 667-673), which counts the
\* link as failed; for a call made after a FloodWaitError the sleep is skipped.
EditRaisesPropagates ==
    /\ spc = "editing"
    /\ spc' = "none"
    /\ status_failed' = status_failed \cup {"edit"}
    /\ results' = [results EXCEPT
                       !.failed = @ + 1,
                       !.failed_chats = Append(@, [link |-> chat_links[idx],
                                                   error |-> "error"])]
    /\ rpc' = "iter"
    /\ idx' = idx + 1
    /\ UNCHANGED <<now, last_status_update, current_time, renders>>
    /\ UNCHANGED <<join_count, current_delay, chat_links, existing_chats, run_ret, iter,
                   pacing, flooded, dirtyStart, tally, snapshot, raised>>

\* edit_message raises (lines 573-574): logged; last_status_update stays.
EditRaises ==
    /\ spc = "editing"
    /\ spc' = "none"
    /\ status_failed' = status_failed \cup {"edit"}
    /\ UNCHANGED <<now, last_status_update, current_time, renders>>
    /\ UNCHANGED runVars

\* The list is gone through: the final status is built and edit_message sent
\* (lines 675-686).
FinalEdit ==
    /\ rpc = "iter"
    /\ idx > Len(chat_links)
    /\ spc = "none"
    /\ spc' = "final"
    /\ UNCHANGED <<now, last_status_update, current_time, renders, status_failed>>
    /\ UNCHANGED runVars

\* The final edit_message returns.
FinalEditReturns ==
    /\ spc = "final"
    /\ spc' = "final_done"
    /\ UNCHANGED <<now, last_status_update, current_time, renders, status_failed>>
    /\ UNCHANGED runVars

\* The final edit_message raises (lines 687-690): logged, send_message is tried.
FinalEditRaises ==
    /\ spc = "final"
    /\ spc' = "fallback"
    /\ status_failed' = status_failed \cup {"final"}
    /\ UNCHANGED <<now, last_status_update, current_time, renders>>
    /\ UNCHANGED runVars

\* send_message returns.
FallbackReturns ==
    /\ spc = "fallback"
    /\ spc' = "final_done"
    /\ UNCHANGED <<now, last_status_update, current_time, renders, status_failed>>
    /\ UNCHANGED runVars

\* send_message raises (lines 691-692): logged.
FallbackRaises ==
    /\ spc = "fallback"
    /\ spc' = "final_done"
    /\ status_failed' = status_failed \cup {"fallback"}
    /\ UNCHANGED <<now, last_status_update, current_time, renders>>
    /\ UNCHANGED runVars

(***************************************************************************)
(* cleanup_old_files on the sessions directory, where the lock files are.  *)
(* A file is old when its change time is more than max_age_hours ago;      *)
(* open(path, 'w') sets the change time of the file it opens, flock does   *)
(* not.                                                                    *)
(***************************************************************************)
\* Time passes: the lock file of session n becomes old.
FileAges(n) ==
    /\ dir[n] # 0
    /\ dir[n] \notin aged
    /\ aged' = aged \cup {dir[n]}
    /\ UNCHANGED lockVars

\* cleanup_old_files(SESSIONS_DIR) run by process p (lines 121-135, called at
\* 1143 and 1186), for the lock file of session n: an old file is removed.
cleanup_old_files(p, n) ==
    /\ pc[p] = "idle"
    /\ dir[n] # 0
    /\ dir[n] \in aged
    /\ dir' = [dir EXCEPT ![n] = 0]
    /\ orphaned' = [orphaned EXCEPT ![n] = FALSE]
    /\ aged' = aged \ {dir[n]}
    /\ UNCHANGED <<locks, lock_files, pc, cur, ret>>

(***************************************************************************)
(* TelegramBot: the handlers that connect an account, and run/cleanup.     *)
(* The account object is the UserAccount last made for the session; a      *)
(* handler is one step per method of the account it awaits.                *)
(***************************************************************************)
\* connect_account_handler (lines 825-835).
connect_account_handler ==
    /\ bpc = "running"
    /\ user_states' = "waiting_phone"
    /\ answer' = "none"
    /\ UNCHANGED <<user_accounts, submitted, session_file, bpc>>
    /\ UNCHANGED <<lockVars, acctVars>>

\* phone_handler up to the answer of start_client (lines 837-852, 872-892): True
\* binds the account to the sender and deletes the state; False is answered with
\* the authorization error; an exception with the general error.
PhoneStart ==
    /\ bpc = "running"
    /\ user_states = "waiting_phone"
    /\ start_client
    /\ submitted' = submitted \cup {Sender}
    /\ session_file' = (session_file \/ last'.created)
    /\ user_states' = "none"
    /\ IF last'.ret = "True"
       THEN /\ user_accounts' = [user_accounts EXCEPT ![Sender] = session_name]
            /\ bpc' = "phone"
            /\ UNCHANGED answer
       ELSE /\ answer' = IF last'.ret = "raises" THEN "error" ELSE "auth_error"
            /\ UNCHANGED <<user_accounts, bpc>>

\* phone_handler after start_client returned True (lines 854-871, 883-892):
\* get_account_info returns None and the handler raises, or it returns the dict and
\* the text of the answer reads account_info['channels_and_large_groups'], a key the
\* dict of lines 332-350 does not have: either way the except clause answers with
\* the general error.
PhoneInfo ==
    /\ bpc = "phone"
    /\ get_account_info
    /\ answer' = "error"
    /\ user_states' = "none"
    /\ bpc' = "running"
    /\ UNCHANGED <<user_accounts, submitted, session_file>>

\* start_handler with get_or_create_user_account(user_id) (lines 742-766, 782-812):
\* a user bound already gets get_account_info of the account; otherwise every
\* session file of the directory is tried with start_client, and the first that
\* starts is bound to the user. With the lock held by the live account the try
\* fails at acquire_lock and changes nothing.
start_handler(u) ==
    /\ bpc = "running"
    /\ IF user_accounts[u] # "none"
       THEN /\ get_account_info
            /\ UNCHANGED <<user_accounts, bpc, session_file>>
       ELSE IF ~session_file \/ HoldsLock
       THEN /\ UNCHANGED <<lockVars, acctVars>>
            /\ UNCHANGED <<user_accounts, bpc, session_file>>
       ELSE /\ \A v \in Users : user_accounts[v] = "none"
            /\ start_client
            /\ session_file' = TRUE
            /\ user_accounts' = IF last'.ret = "True"
                                THEN [user_accounts EXCEPT ![u] = session_name]
                                ELSE user_accounts
            /\ bpc' = IF last'.ret = "False" /\ last'.created THEN "scan" ELSE "running"
    /\ UNCHANGED <<user_states, submitted, answer>>

\* get_or_create_user_account, line 763: await temp_account.disconnect() after
\* start_client returned False.
ScanDisconnect ==
    /\ bpc = "scan"
    /\ disconnect
    /\ bpc' = "running"
    /\ UNCHANGED <<user_states, user_accounts, submitted, session_file, answer>>

\* cancel_handler (lines 894-908): the state of the sender is deleted.
cancel_handler ==
    /\ bpc = "running"
    /\ user_states # "none"
    /\ user_states' = "none"
    /\ UNCHANGED <<user_accounts, submitted, session_file, answer, bpc>>
    /\ UNCHANGED <<lockVars, acctVars>>

\* run leaves run_until_disconnected (lines 1209-1216): cleanup() begins.
RunEndsCleanup ==
    /\ bpc = "running"
    /\ bpc' = "cleanup"
    /\ UNCHANGED <<user_states, user_accounts, submitted, session_file, answer>>
    /\ UNCHANGED <<lockVars, acctVars>>

\* cleanup, lines 1164-1171: the account of user u is disconnected and taken out
\* of user_accounts.
CleanupAccount(u) ==
    /\ bpc = "cleanup"
    /\ user_accounts[u] # "none"
    /\ disconnect
    /\ user_accounts' = [user_accounts EXCEPT ![u] = "none"]
    /\ UNCHANGED <<user_states, submitted, session_file, answer, bpc>>

\* cleanup, lines 1173-1199, once every account is out: release_lock of the bot's
\* own session name, which was never acquired, does nothing; the states are
\* cleared.
CleanupEnds ==
    /\ bpc = "cleanup"
    /\ \A u \in Users : user_accounts[u] = "none"
    /\ user_states' = "none"
    /\ bpc' = "stopped"
    /\ UNCHANGED <<user_accounts, submitted, session_file, answer>>
    /\ UNCHANGED <<lockVars, acctVars>>

\* The process ends and the bot is started again: the kernel has closed the files
\* of the old process, the files of the sessions directory are still there.
Restart ==
    /\ bpc = "stopped"
    /\ bpc' = "running"
    /\ answer' = "none"
    /\ locks' = [locks EXCEPT ![Bot] = [n \in Names |-> 0]]
    /\ lock_files' = [lock_files EXCEPT ![Bot] = {}]
    /\ orphaned' = [n \in Names |->
                       orphaned[n] \/ (locks[Bot][n] # 0 /\ locks[Bot][n] = dir[n])]
    /\ client' = "none"
    /\ phone_code_hash' = FALSE
    /\ last' = NoLast
    /\ UNCHANGED <<dir, pc, cur, ret, authorized>>
    /\ UNCHANGED <<user_states, user_accounts, submitted, session_file>>

(***************************************************************************)
(* The webhook front door (api/bot.py).  handler() runs each request to    *)
(* its end with loop.run_until_complete, so the requests of one process    *)
(* are served one after the other.                                         *)
(***************************************************************************)
MaxRequests == 3

\* the updates a request can carry: not a POST at all, a message whose text is
\* '/start', any other update
RequestKinds == {"not_post", "start", "other"}

\* handler(request) -> handle_request: a request that is not a POST is answered
\* 405 at once; any other goes to handle_webhook, which begins with get_client().
handle_request(kind) ==
    /\ wpc = "idle"
    /\ Len(responses) < MaxRequests
    /\ IF kind = "not_post"
         THEN /\ responses' = Append(responses, "405")
              /\ UNCHANGED <<wpc, request_data>>
         ELSE /\ wpc' = "get_client"
              /\ request_data' = kind
              /\ UNCHANGED responses
    /\ got' = "none"
    /\ UNCHANGED <<webhook_client, clients_created>>

\* get_client, the global is None: the new TelegramClient is assigned to the
\* global first, and start() is awaited afterwards.
get_client_creates ==
    /\ wpc = "get_client"
    /\ webhook_client = "none"
    /\ webhook_client' = "created"
    /\ clients_created' = clients_created + 1
    /\ wpc' = "starting"
    /\ UNCHANGED <<request_data, got, responses>>

\* await client.start(bot_token=BOT_TOKEN) returns: get_client returns the client.
StartReturns ==
    /\ wpc = "starting"
    /\ webhook_client' = "started"
    /\ got' = "started"
    /\ wpc' = "handle"
    /\ UNCHANGED <<clients_created, request_data, responses>>

\* await client.start(...) raises (no network, a bad token, a flood wait): the
\* exception leaves get_client and is answered by handle_webhook's except
\* clause; the global keeps the client that was assigned before the call.
StartRaises ==
    /\ wpc = "starting"
    /\ wpc' = "idle"
    /\ request_data' = "none"
    /\ responses' = Append(responses, "error")
    /\ UNCHANGED <<webhook_client, clients_created, got>>

\* get_client, the global is not None: it is returned as it is.
get_client_returns ==
    /\ wpc = "get_client"
    /\ webhook_client # "none"
    /\ got' = webhook_client
    /\ wpc' = "handle"
    /\ UNCHANGED <<webhook_client, clients_created, request_data, responses>>

\* handle_webhook after get_client: '/start' is answered with send_message on
\* the client, which may raise (and does on a client that was never started);
\* any other update is answered "success" without touching the client.
handle_webhook(sent) ==
    /\ wpc = "handle"
    /\ sent \/ request_data = "start"
    /\ got = "started" \/ ~sent \/ request_data # "start"
    /\ responses' = Append(responses, IF sent THEN "success" ELSE "error")
    /\ wpc' = "idle"
    /\ request_data' = "none"
    /\ UNCHANGED <<webhook_client, clients_created, got>>

(***************************************************************************)
(* Specifications.                                                         *)
(***************************************************************************)
vars == <<lockVars, acctVars, runVars, handlerVars, linkVars, extVars>>

restVars == <<handlerVars, linkVars, extVars>>

\* No lock file, no call in progress, a fresh UserAccount (lines 67-70, 138-149).
InitLock ==
    /\ dir = [n \in Names |-> 0]
    /\ locks = [p \in Procs |-> [n \in Names |-> 0]]
    /\ lock_files = [p \in Procs |-> {}]
    /\ pc = [p \in Procs |-> "idle"]
    /\ cur = [p \in Procs |-> NoCall]
    /\ ret = NoRet
    /\ orphaned = [n \in Names |-> FALSE]
    /\ client = "none"
    /\ phone_code_hash = FALSE
    /\ authorized = FALSE
    /\ last = NoLast
    /\ join_count = 0
    /\ current_delay = BaseDelay
    /\ rpc = "idle"
    /\ chat_links = <<>>
    /\ existing_chats = {}
    /\ idx = 0
    /\ results = NoResults
    /\ run_ret = NoRun
    /\ tally = NoTally
    /\ snapshot = {}
    /\ raised = NoError
    /\ user_states = "none"
    /\ hpc = [h \in Handlers |-> "idle"]
    /\ hidx = [h \in Handlers |-> 0]
    /\ lines = <<>>
    /\ out = <<>>
    /\ again = <<>>
    /\ lphase = "idle"
    /\ webhook_client = "none"
    /\ clients_created = 0
    /\ wpc = "idle"
    /\ request_data = "none"
    /\ got = "none"
    /\ responses = <<>>
    /\ user_accounts = [u \in Users |-> "none"]
    /\ submitted = {}
    /\ session_file = FALSE
    /\ answer = "none"
    /\ bpc = "running"
    /\ aged = {}
    /\ now = 0
    /\ last_status_update = 0
    /\ current_time = 0
    /\ spc = "none"
    /\ renders = <<>>
    /\ status_failed = {}
    /\ iter = NoIter
    /\ pacing = <<>>
    /\ flooded = FALSE
    /\ dirtyStart = FALSE

\* The same, with a session file that may have been authorized by an earlier life
\* of the bot.
InitAccount ==
    /\ dir = [n \in Names |-> 0]
    /\ locks = [p \in Procs |-> [n \in Names |-> 0]]
    /\ lock_files = [p \in Procs |-> {}]
    /\ pc = [p \in Procs |-> "idle"]
    /\ cur = [p \in Procs |-> NoCall]
    /\ ret = NoRet
    /\ orphaned = [n \in Names |-> FALSE]
    /\ client = "none"
    /\ phone_code_hash = FALSE
    /\ authorized \in BOOLEAN
    /\ last = NoLast
    /\ join_count = 0
    /\ current_delay = BaseDelay
    /\ rpc = "idle"
    /\ chat_links = <<>>
    /\ existing_chats = {}
    /\ idx = 0
    /\ results = NoResults
    /\ run_ret = NoRun
    /\ tally = NoTally
    /\ snapshot = {}
    /\ raised = NoError
    /\ user_states = "none"
    /\ hpc = [h \in Handlers |-> "idle"]
    /\ hidx = [h \in Handlers |-> 0]
    /\ lines = <<>>
    /\ out = <<>>
    /\ again = <<>>
    /\ lphase = "idle"
    /\ webhook_client = "none"
    /\ clients_created = 0
    /\ wpc = "idle"
    /\ request_data = "none"
    /\ got = "none"
    /\ responses = <<>>
    /\ user_accounts = [u \in Users |-> "none"]
    /\ submitted = {}
    /\ session_file = FALSE
    /\ answer = "none"
    /\ bpc = "running"
    /\ aged = {}
    /\ now = 0
    /\ last_status_update = 0
    /\ current_time = 0
    /\ spc = "none"
    /\ renders = <<>>
    /\ status_failed = {}
    /\ iter = NoIter
    /\ pacing = <<>>
    /\ flooded = FALSE
    /\ dirtyStart = FALSE

LockStep(p) ==
    \/ \E n \in Names : AcquireOpen(p, n)
    \/ AcquireFlock(p)
    \/ \E n \in Names : ReleaseBegin(p, n)
    \/ ReleaseClose(p)
    \/ ReleaseRemove(p)
    \/ Crash(p)

\* Independent processes calling acquire_lock and release_lock.
NextLock == \E p \in Procs : LockStep(p) /\ UNCHANGED <<acctVars, runVars, restVars>>

SpecLock == InitLock /\ [][NextLock]_vars

\* The account of the bot process, and the other processes on the same lock file.
Other == 2

NextAccount ==
    \/ start_client /\ UNCHANGED <<runVars, restVars>>
    \/ send_code /\ UNCHANGED <<runVars, restVars>>
    \/ sign_in /\ UNCHANGED <<runVars, restVars>>
    \/ disconnect /\ UNCHANGED <<runVars, restVars>>
    \/ get_account_info /\ UNCHANGED <<runVars, restVars>>
    \/ ConnectionLost /\ UNCHANGED <<runVars, restVars>>
    \/ LockStep(Other) /\ UNCHANGED <<acctVars, runVars, restVars>>

SpecAccount == InitAccount /\ [][NextAccount]_vars

\* The states an account is in when join_chats is called on it: never started;
\* started (start_client returned True: connected, authorized, lock held); started
\* and the connection lost since; left by start_client with the 2FA password
\* refused (connected, not authorized, lock released).
InitRun ==
    /\ pc = [p \in Procs |-> "idle"]
    /\ cur = [p \in Procs |-> NoCall]
    /\ ret = NoRet
    /\ orphaned = [n \in Names |-> FALSE]
    /\ \E st \in {"fresh", "started", "dropped", "refused"} :
          /\ client = CASE st = "fresh" -> "none"
                         [] st = "dropped" -> "down"
                         [] OTHER -> "up"
          /\ authorized = (st \in {"started", "dropped"})
          /\ phone_code_hash = (st = "refused")
          /\ dir = [n \in Names |-> IF st \in {"started", "dropped"} THEN 1 ELSE 0]
          /\ locks = [p \in Procs |-> [n \in Names |->
                          IF p = Bot /\ st \in {"started", "dropped"} THEN 1 ELSE 0]]
          /\ lock_files = [p \in Procs |->
                               IF p = Bot /\ st \in {"started", "dropped"}
                               THEN Names ELSE {}]
    /\ last = NoLast
    /\ join_count = 0
    /\ current_delay = BaseDelay
    /\ rpc = "idle"
    /\ chat_links = <<>>
    /\ existing_chats = {}
    /\ idx = 0
    /\ results = NoResults
    /\ run_ret = NoRun
    /\ tally = NoTally
    /\ snapshot = {}
    /\ raised = NoError
    /\ user_states = "none"
    /\ hpc = [h \in Handlers |-> "idle"]
    /\ hidx = [h \in Handlers |-> 0]
    /\ lines = <<>>
    /\ out = <<>>
    /\ again = <<>>
    /\ lphase = "idle"
    /\ webhook_client = "none"
    /\ clients_created = 0
    /\ wpc = "idle"
    /\ request_data = "none"
    /\ got = "none"
    /\ responses = <<>>
    /\ user_accounts = [u \in Users |-> "none"]
    /\ submitted = {}
    /\ session_file = FALSE
    /\ answer = "none"
    /\ bpc = "running"
    /\ aged = {}
    /\ now = 0
    /\ last_status_update = 0
    /\ current_time = 0
    /\ spc = "none"
    /\ renders = <<>>
    /\ status_failed = {}
    /\ iter = NoIter
    /\ pacing = <<>>
    /\ flooded = FALSE
    /\ dirtyStart = FALSE

NextRun ==
    \/ \E links \in Targets, dialogs \in DialogSnapshots :
          StartRun(links, dialogs) /\ UNCHANGED restVars
    \/ IterBegin /\ UNCHANGED restVars
    \/ JoinSucceeds /\ UNCHANGED restVars
    \/ SleepReturns /\ UNCHANGED restVars
    \/ \E e \in Errors : JoinRaises(e) /\ UNCHANGED restVars
    \/ FloodSleepReturns /\ UNCHANGED restVars
    \/ FinishRun /\ UNCHANGED restVars
    \/ Cancel /\ UNCHANGED restVars
    \/ rpc \in {"idle", "done"} /\ disconnect /\ UNCHANGED <<runVars, restVars>>

SpecRun == InitRun /\ [][NextRun]_vars

\* One run over the whole file, in which every join request and every sleep returns.
FullList == [k \in 1..MaxTargets |-> LinkAt(k)]

RunStep ==
    \/ IterBegin /\ UNCHANGED restVars
    \/ JoinSucceeds /\ UNCHANGED restVars
    \/ SleepReturns /\ UNCHANGED restVars
    \/ \E e \in Errors : JoinRaises(e) /\ UNCHANGED restVars
    \/ FloodSleepReturns /\ UNCHANGED restVars
    \/ FinishRun /\ UNCHANGED restVars

NextOrder ==
    \/ \E dialogs \in DialogSnapshots : StartRun(FullList, dialogs) /\ UNCHANGED restVars
    \/ RunStep

SpecOrder == InitRun /\ [][NextOrder]_vars /\ WF_vars(RunStep)

\* A started account, no handler active.
InitHandlers ==
    /\ pc = [p \in Procs |-> "idle"]
    /\ cur = [p \in Procs |-> NoCall]
    /\ ret = NoRet
    /\ orphaned = [n \in Names |-> FALSE]
    /\ client = "up"
    /\ authorized = TRUE
    /\ phone_code_hash = FALSE
    /\ dir = [n \in Names |-> 1]
    /\ locks = [p \in Procs |-> [n \in Names |-> IF p = Bot THEN 1 ELSE 0]]
    /\ lock_files = [p \in Procs |-> IF p = Bot THEN Names ELSE {}]
    /\ last = NoLast
    /\ join_count = 0
    /\ current_delay = BaseDelay
    /\ rpc = "idle"
    /\ chat_links = <<>>
    /\ existing_chats = {}
    /\ idx = 0
    /\ results = NoResults
    /\ run_ret = NoRun
    /\ iter = NoIter
    /\ pacing = <<>>
    /\ flooded = FALSE
    /\ dirtyStart = FALSE
    /\ tally = NoTally
    /\ snapshot = {}
    /\ raised = NoError
    /\ user_states = "none"
    /\ hpc = [h \in Handlers |-> "idle"]
    /\ hidx = [h \in Handlers |-> 0]
    /\ lines = <<>>
    /\ out = <<>>
    /\ again = <<>>
    /\ lphase = "idle"
    /\ webhook_client = "none"
    /\ clients_created = 0
    /\ wpc = "idle"
    /\ request_data = "none"
    /\ got = "none"
    /\ responses = <<>>
    /\ user_accounts = [u \in Users |-> "none"]
    /\ submitted = {}
    /\ session_file = FALSE
    /\ answer = "none"
    /\ bpc = "running"
    /\ aged = {}
    /\ now = 0
    /\ last_status_update = 0
    /\ current_time = 0
    /\ spc = "none"
    /\ renders = <<>>
    /\ status_failed = {}

handlerFrame == <<lockVars, acctVars, runLocals, linkVars, extVars>>

NextHandlers ==
    \/ upload_channels_handler /\ UNCHANGED handlerFrame
    \/ \E h \in Handlers : FileReceived(h) /\ UNCHANGED handlerFrame
    \/ \E h \in Handlers : SetupDone(h) /\ UNCHANGED handlerFrame
    \/ \E h \in Handlers : RunJoin(h) /\ UNCHANGED handlerFrame
    \/ \E h \in Handlers : RunEnds(h) /\ UNCHANGED handlerFrame
    \/ \E h \in Handlers : HandlerEnds(h) /\ UNCHANGED handlerFrame

SpecHandlers == InitHandlers /\ [][NextHandlers]_vars

\* Any text of MaxLines lines.
InitLinks ==
    /\ pc = [p \in Procs |-> "idle"]
    /\ cur = [p \in Procs |-> NoCall]
    /\ ret = NoRet
    /\ orphaned = [n \in Names |-> FALSE]
    /\ client = "none"
    /\ authorized = FALSE
    /\ phone_code_hash = FALSE
    /\ dir = [n \in Names |-> 0]
    /\ locks = [p \in Procs |-> [n \in Names |-> 0]]
    /\ lock_files = [p \in Procs |-> {}]
    /\ last = NoLast
    /\ join_count = 0
    /\ current_delay = BaseDelay
    /\ rpc = "idle"
    /\ chat_links = <<>>
    /\ existing_chats = {}
    /\ idx = 0
    /\ results = NoResults
    /\ run_ret = NoRun
    /\ iter = NoIter
    /\ pacing = <<>>
    /\ flooded = FALSE
    /\ dirtyStart = FALSE
    /\ tally = NoTally
    /\ snapshot = {}
    /\ raised = NoError
    /\ user_states = "none"
    /\ hpc = [h \in Handlers |-> "idle"]
    /\ hidx = [h \in Handlers |-> 0]
    /\ lines \in [1..MaxLines -> LineSet]
    /\ out = <<>>
    /\ again = <<>>
    /\ lphase = "input"
    /\ webhook_client = "none"
    /\ clients_created = 0
    /\ wpc = "idle"
    /\ request_data = "none"
    /\ got = "none"
    /\ responses = <<>>
    /\ user_accounts = [u \in Users |-> "none"]
    /\ submitted = {}
    /\ session_file = FALSE
    /\ answer = "none"
    /\ bpc = "running"
    /\ aged = {}
    /\ now = 0
    /\ last_status_update = 0
    /\ current_time = 0
    /\ spc = "none"
    /\ renders = <<>>
    /\ status_failed = {}

NextLinks ==
    \/ Extract /\ UNCHANGED <<lockVars, acctVars, runVars, handlerVars, extVars>>
    \/ ExtractAgain /\ UNCHANGED <<lockVars, acctVars, runVars, handlerVars, extVars>>

SpecLinks == InitLinks /\ [][NextLinks]_vars

\* A started account and the long list.
InitRamp ==
    /\ pc = [p \in Procs |-> "idle"]
    /\ cur = [p \in Procs |-> NoCall]
    /\ ret = NoRet
    /\ orphaned = [n \in Names |-> FALSE]
    /\ client = "up"
    /\ authorized = TRUE
    /\ phone_code_hash = FALSE
    /\ dir = [n \in Names |-> 1]
    /\ locks = [p \in Procs |-> [n \in Names |-> IF p = Bot THEN 1 ELSE 0]]
    /\ lock_files = [p \in Procs |-> IF p = Bot THEN Names ELSE {}]
    /\ last = NoLast
    /\ join_count = 0
    /\ current_delay = BaseDelay
    /\ rpc = "idle"
    /\ chat_links = <<>>
    /\ existing_chats = {}
    /\ idx = 0
    /\ results = NoResults
    /\ run_ret = NoRun
    /\ tally = NoTally
    /\ snapshot = {}
    /\ raised = NoError
    /\ user_states = "none"
    /\ hpc = [h \in Handlers |-> "idle"]
    /\ hidx = [h \in Handlers |-> 0]
    /\ lines = <<>>
    /\ out = <<>>
    /\ again = <<>>
    /\ lphase = "idle"
    /\ webhook_client = "none"
    /\ clients_created = 0
    /\ wpc = "idle"
    /\ request_data = "none"
    /\ got = "none"
    /\ responses = <<>>
    /\ user_accounts = [u \in Users |-> "none"]
    /\ submitted = {}
    /\ session_file = FALSE
    /\ answer = "none"
    /\ bpc = "running"
    /\ aged = {}
    /\ now = 0
    /\ last_status_update = 0
    /\ current_time = 0
    /\ spc = "none"
    /\ renders = <<>>
    /\ status_failed = {}
    /\ iter = NoIter
    /\ pacing = <<>>
    /\ flooded = FALSE
    /\ dirtyStart = FALSE

NextRamp ==
    \/ \E dialogs \in DialogSnapshots : StartRun(RampList, dialogs) /\ UNCHANGED restVars
    \/ IterBegin /\ UNCHANGED restVars
    \/ JoinSucceeds /\ UNCHANGED restVars
    \/ SleepReturns /\ UNCHANGED restVars
    \/ \E e \in Errors : JoinRaises(e) /\ UNCHANGED restVars
    \/ FloodSleepReturns /\ UNCHANGED restVars
    \/ FinishRun /\ UNCHANGED restVars

SpecRamp == InitRamp /\ [][NextRamp]_vars

\* One run over a short list, with its status message and the clock.
statusRest == <<now, last_status_update, current_time, renders, status_failed>>

statusFrame == <<handlerVars, linkVars, cleanupVars, botVars, webVars>>

NextStatus ==
    \/ Tick /\ UNCHANGED <<lockVars, acctVars, runVars, statusFrame>>
    \/ \E dialogs \in DialogSnapshots :
          /\ rpc = "idle"
          /\ StartRun(StatusList, dialogs)
          /\ StatusReset
          /\ UNCHANGED <<statusFrame>>
    \/ /\ spc = "none"
       /\ IterBegin
       /\ spc' = IF rpc' = "join" THEN "call" ELSE "none"
       /\ UNCHANGED <<statusRest, statusFrame>>
    \/ update_status /\ UNCHANGED <<lockVars, acctVars, statusFrame>>
    \/ EditReturns /\ UNCHANGED <<lockVars, acctVars, statusFrame>>
    \/ EditRaises /\ UNCHANGED <<lockVars, acctVars, statusFrame>>
    \/ /\ spc = "none"
       /\ JoinSucceeds
       /\ UNCHANGED <<statusVars, statusFrame>>
    \/ /\ spc = "none"
       /\ \E e \in Errors : JoinRaises(e)
       /\ spc' = IF rpc' = "flood" THEN "call" ELSE "none"
       /\ UNCHANGED <<statusRest, statusFrame>>
    \/ SleepReturns /\ UNCHANGED <<statusVars, statusFrame>>
    \/ /\ spc = "none"
       /\ FloodSleepReturns
       /\ UNCHANGED <<statusVars, statusFrame>>
    \/ FinalEdit /\ UNCHANGED <<lockVars, acctVars, statusFrame>>
    \/ FinalEditReturns /\ UNCHANGED <<lockVars, acctVars, statusFrame>>
    \/ FinalEditRaises /\ UNCHANGED <<lockVars, acctVars, statusFrame>>
    \/ FallbackReturns /\ UNCHANGED <<lockVars, acctVars, statusFrame>>
    \/ FallbackRaises /\ UNCHANGED <<lockVars, acctVars, statusFrame>>
    \/ /\ spc = "final_done"
       /\ FinishRun
       /\ spc' = "none"
       /\ UNCHANGED <<statusRest, statusFrame>>

SpecStatus == InitRamp /\ [][NextStatus]_vars

\* A step of acquire_lock or release_lock of process p, with its effect on the
\* change times: the file just opened is new, an inode no longer in use is gone.
LockStepTimed(p) ==
    /\ LockStep(p)
    /\ aged' = {i \in aged :
                   /\ i \in InodesInUse'
                   /\ ~(pc[p] = "idle" /\ pc'[p] = "opened" /\ cur'[p].ino = i)}

\* Independent bot processes that acquire and release the lock and clean the
\* sessions directory, while time passes.
cleanupFrame == <<acctVars, runVars, handlerVars, linkVars, statusVars, botVars, webVars>>

NextCleanup ==
    \/ \E p \in Procs : LockStepTimed(p) /\ UNCHANGED cleanupFrame
    \/ \E n \in Names : FileAges(n) /\ UNCHANGED cleanupFrame
    \/ \E p \in Procs, n \in Names :
          cleanup_old_files(p, n) /\ UNCHANGED cleanupFrame

SpecCleanup == InitLock /\ [][NextCleanup]_vars

\* One bot process and its two users, from a fresh sessions directory.
botFrame == <<runVars, hpc, hidx, linkVars, statusVars, cleanupVars, webVars>>

NextBot ==
    \/ connect_account_handler /\ UNCHANGED botFrame
    \/ PhoneStart /\ UNCHANGED botFrame
    \/ PhoneInfo /\ UNCHANGED botFrame
    \/ \E u \in Users : start_handler(u) /\ UNCHANGED botFrame
    \/ ScanDisconnect /\ UNCHANGED botFrame
    \/ cancel_handler /\ UNCHANGED botFrame
    \/ RunEndsCleanup /\ UNCHANGED botFrame
    \/ \E u \in Users : CleanupAccount(u) /\ UNCHANGED botFrame
    \/ CleanupEnds /\ UNCHANGED botFrame
    \/ Restart /\ UNCHANGED botFrame

SpecBot == InitLock /\ [][NextBot]_vars

\* The webhook front door alone: requests arrive one after the other.
webFrame == <<lockVars, acctVars, runVars, handlerVars, linkVars, statusVars, cleanupVars,
              botVars>>

NextWeb ==
    \/ \E kind \in RequestKinds : handle_request(kind) /\ UNCHANGED webFrame
    \/ get_client_creates /\ UNCHANGED webFrame
    \/ StartReturns /\ UNCHANGED webFrame
    \/ StartRaises /\ UNCHANGED webFrame
    \/ get_client_returns /\ UNCHANGED webFrame
    \/ \E sent \in BOOLEAN : handle_webhook(sent) /\ UNCHANGED webFrame

SpecWeb == InitLock /\ [][NextWeb]_vars

(***************************************************************************)
(* The claims.                                                             *)
(***************************************************************************)

\* C1: at most one SessionManager holds the lock of a session name at any time,
\* under any interleaving of the steps of acquire_lock and release_lock (unlock,
\* close, remove the lock file) of independent processes.
C1_MutualExclusion == \A n \in Names : Cardinality(Holders(n)) <= 1

\* C2: acquire_lock returns True if and only if no live holder of the lock of
\* that name (in any process, the caller's included) exists at the moment of the
\* call.
C2_AcquireIffNoHolder == ret.op = "acquire" => (ret.res <=> ~ret.busy)

\* C3: release_lock of a name this manager does not hold changes nothing: not
\* the manager's own state, not the lock file, not a lock another holder has; so
\* a second release after a first does nothing more.
C3_ReleaseUnheldIsNoop ==
    [][\A p \in Procs, n \in Names :
          (ReleaseBegin(p, n) /\ locks[p][n] = 0)
              => UNCHANGED <<dir, locks, lock_files, pc, cur, orphaned>>]_vars

\* A release of a lock the caller did not hold has returned, and another process
\* holds that lock, its file on disk.
C3_Witness ==
    /\ ret.op = "release"
    /\ ~ret.res
    /\ \E q \in Procs \ {ret.proc} : locks[q][ret.name] # 0 /\ dir[ret.name] = locks[q][ret.name]

\* C4: a lock whose holder died without release_lock does not outlive it: an
\* acquire_lock that finds the dead holder's lock file still on disk succeeds.
C4_NoPhantomLock == (ret.op = "acquire" /\ ret.orphan) => ret.res

\* An acquire_lock on the file a dead holder left has returned True, the file still
\* on disk.
C4_Witness ==
    /\ ret.op = "acquire"
    /\ ret.orphan
    /\ ret.res
    /\ dir[ret.name] # 0
    /\ locks[ret.proc][ret.name] = dir[ret.name]

\* C5: every connect() of the account's client (in start_client, send_code,
\* sign_in, get_account_info, join_chats) is made while the account holds its
\* session lock.
C5_ConnectUnderLock == last.connect # "unlocked"

\* C6: once disconnect() has returned, and once start_client() has returned False
\* after acquiring the lock, the account does not hold its session lock, also when
\* the client's own disconnect() raised.
C6_ReleasedOnExit ==
    /\ last.op = "disconnect" => ~HoldsLock
    /\ (last.op = "start_client" /\ last.acquired /\ last.ret = "False") => ~HoldsLock

\* C7: when acquire_lock fails, start_client creates no client, calls no
\* connect(), keeps the account as it was and returns False.
C7_BusyOpensNothing ==
    [][(start_client /\ ~acquire_lock(LockState, Bot, session_name).ok)
          => /\ last'.ret = "False"
             /\ ~last'.created
             /\ last'.connect = "no"
             /\ UNCHANGED <<client, phone_code_hash, authorized, locks, lock_files>>]_vars

\* start_client has returned False without acquiring the lock, which a holder has.
C7_Witness ==
    /\ last.op = "start_client"
    /\ ~last.acquired
    /\ last.ret = "False"
    /\ Held(session_name)

\* The sleep after the k-th consecutive join of a run: 10 s, 60 s, then the
\* previous one times 1.1, at most 600 s.
RECURSIVE Ramp(_)
Ramp(k) ==
    IF k = 1 THEN BaseDelay
    ELSE IF k = 2 THEN SecondDelay
    ELSE Min((Ramp(k - 1) * 11) \div 10, MaxDelay)

InLoop == rpc \in {"iter", "join", "sleep", "flood"}

\* C8: in a run, whatever backoff state earlier runs left, the pacing sleeps after
\* the joins are 10 s, 60 s, then min(previous * 1.1, 600 s), as long as no flood
\* wait interrupts them: they never decrease and never exceed 600 s, and the
\* counter and the delay start from 0 and 10 s.
C8_BackoffRamp ==
    (InLoop /\ ~flooded) =>
        /\ join_count = Len(pacing)
        /\ current_delay = IF pacing = <<>> THEN BaseDelay ELSE pacing[Len(pacing)]
        /\ \A k \in DOMAIN pacing :
              /\ pacing[k] = Ramp(k)
              /\ pacing[k] <= MaxDelay
              /\ k > 1 => pacing[k - 1] <= pacing[k]

\* A run that started from the backoff state an earlier run left has reached the
\* cap: a sleep of 600 s where 1.1 times the previous one is more.
C8_Witness ==
    /\ InLoop
    /\ ~flooded
    /\ dirtyStart
    /\ \E k \in DOMAIN pacing :
          /\ k > 2
          /\ pacing[k] = MaxDelay
          /\ (pacing[k - 1] * 11) \div 10 > MaxDelay

\* C9: after a flood wait the ramp restarts from scratch, however many joins came
\* before: the counter is back at zero and the delay at 10 s, so the next join is
\* followed by a sleep of 10 s and the one after by 60 s.
C9_RampRestartsAfterFlood ==
    (InLoop /\ flooded /\ rpc # "flood") =>
        /\ join_count = Len(pacing)
        /\ pacing = <<>> => current_delay = BaseDelay
        /\ Len(pacing) >= 1 => pacing[1] = BaseDelay
        /\ Len(pacing) >= 2 => pacing[2] = SecondDelay

\* C10: in an iteration whose join request raised FloodWaitError, the sleep made
\* is e.seconds and nothing else: the pacing delay is slept neither instead of it
\* nor after it.
C10_FloodSleepIsWait == iter.outcome = "flood" => iter.sleeps = <<iter.wait>>

\* A flood wait of 120 s met after a join (the pacing delay stands at 10 s) has
\* been slept and the loop is back at its top.
C10_Witness ==
    /\ iter.outcome = "flood"
    /\ iter.wait = 120000
    /\ iter.sleeps = <<120000>>
    /\ join_count >= 1
    /\ rpc = "iter"

\* C11: a flood wait is recovered from and is not a failure of the run: the link
\* whose join request raised FloodWaitError is counted in failed on that account
\* only when the error was met for that same link more than once.
C11_FloodNotAFailure ==
    iter.outcome = "flood" =>
        LET e == results.failed_chats[Len(results.failed_chats)]
        IN e.error = "wait" => tally.floods >= 2

\* The links of the first n positions that the dialog snapshot names.
Members(n) == Cardinality({k \in 1..n : Lower(chat_links[k].seg) \in existing_chats})

\* C12: when join_chats has gone through its whole loop, whatever the outcomes
\* were, success + failed + already_member is the length of the list it was given.
C12_TotalsAtEnd ==
    (rpc = "done" /\ run_ret.why = "finished") =>
        results.success + results.failed + results.already_member = Len(chat_links)

\* A run over four links is through: two of them name a channel of the dialogs,
\* one was joined, one failed.
C12_Witness ==
    /\ rpc = "done"
    /\ run_ret.why = "finished"
    /\ Len(chat_links) = MaxTargets
    /\ results.already_member = 2
    /\ results.success = 1
    /\ results.failed = 1

\* C13: between any two iterations of the loop, and not only after the last,
\* success + failed + already_member is the number of links gone through so far.
C13_TotalsTrackProgress ==
    rpc = "iter" =>
        results.success + results.failed + results.already_member = idx - 1

\* The links filed as failures, failed_chats first.
FailedLinks ==
    [k \in 1..Len(results.failed_chats) |-> results.failed_chats[k].link]
        \o results.captcha_required

\* C14: no link is lost or counted twice: every link of the list adds one to
\* exactly one of success, failed, already_member, and every link counted in failed
\* is once in failed_chats or once in captcha_required, never in both, so that
\* failed = len(failed_chats) + len(captcha_required) in every state.
C14_OneOutcomeEach ==
    /\ results.failed = Len(results.failed_chats) + Len(results.captcha_required)
    /\ \A i, j \in DOMAIN FailedLinks : i # j => FailedLinks[i] # FailedLinks[j]
    /\ InLoop => results.already_member = Members(Len(chat_links))
    /\ (rpc = "iter" \/ (rpc = "done" /\ run_ret.why = "finished")) =>
          /\ results.success + results.failed = (idx - 1) - Members(idx - 1)
          /\ results.already_member = Members(Len(chat_links))

\* A run over four links, none in the dialogs, is through with one link in each of
\* the outcomes: joined, flood wait, captcha, other error.
C14_Witness ==
    /\ rpc = "done"
    /\ run_ret.why = "finished"
    /\ Len(chat_links) = MaxTargets
    /\ results.success = 1
    /\ Len(results.captcha_required) = 1
    /\ \E i, j \in DOMAIN results.failed_chats :
          /\ results.failed_chats[i].error = "wait"
          /\ results.failed_chats[j].error = "error"

\* C15: a run cancelled at the join request, the pacing sleep or the flood-wait
\* sleep ends with the session lock of the account released: once the cancelled
\* run has returned and the account has been disconnected, the lock is not held.
C15_CancelReleasesLock ==
    (rpc = "done" /\ run_ret.why = "cancelled" /\ last.op = "disconnect") => ~HoldsLock

\* C16: a cancelled join_chats returns its results dict, and the dict holds what
\* was done before the cancellation: one count for every join request that had
\* ended, none for the one that was cut short.
C16_PartialResultsReturned ==
    run_ret.why = "cancelled" =>
        /\ run_ret.returned
        /\ ~run_ret.has_error
        /\ results.success + results.failed
              = tally.joins - (IF run_ret.at = "join" THEN 1 ELSE 0)
        /\ results.failed = Len(results.failed_chats) + Len(results.captcha_required)
        /\ results.already_member = Members(Len(chat_links))

\* A run was cancelled in a pacing sleep with links still to go, a join and a
\* failure already counted.
C16_Witness ==
    /\ rpc = "done"
    /\ run_ret.why = "cancelled"
    /\ run_ret.at = "sleep"
    /\ run_ret.returned
    /\ idx < Len(chat_links)
    /\ results.success >= 1
    /\ results.failed >= 1

\* C17: however join_chats ends (list gone through, return before the loop,
\* cancellation), it has emitted its final status exactly once.
C17_OneFinalSnapshot == rpc = "done" => tally.finals = 1

\* C18: join_chats on an empty list returns at once: the results dict with every
\* counter zero and every list empty, no connect(), no join request, no sleep.
C18_EmptyListReturnsAtOnce ==
    (rpc = "done" /\ chat_links = <<>>) =>
        /\ run_ret.returned
        /\ ~run_ret.has_error
        /\ results = NoResults
        /\ tally.joins = 0
        /\ tally.sleeps = 0
        /\ last.op = "join_chats" => last.connect = "no"

\* join_chats has returned on an empty list, called on a connected, authorized
\* account that joined channels in an earlier run.
C18_Witness ==
    /\ rpc = "done"
    /\ chat_links = <<>>
    /\ run_ret.why = "empty"
    /\ last.op = "join_chats"
    /\ client = "up"
    /\ authorized
    /\ join_count >= 1

\* C19: with no client or an account that is not authorized, join_chats makes no
\* join request and no sleep, and what it returns has the "error" key that
\* process_file_handler tests.
C19_AbortCarriesError ==
    (rpc = "done" /\ run_ret.why \in {"no_client", "not_authorized"}) =>
        /\ tally.joins = 0
        /\ tally.sleeps = 0
        /\ run_ret.has_error

\* C20: a join request that fails, with a captcha or any other error, does not end
\* the run: once a join request has been made join_chats returns only after the
\* last link (cancellation aside), and the failure is filed once, for its link.
C20_FailureDoesNotAbort ==
    /\ (rpc = "done" /\ run_ret.why # "cancelled" /\ tally.joins >= 1) =>
          idx = Len(chat_links) + 1
    /\ (rpc = "iter" /\ iter.outcome \in {"captcha", "failed"}) =>
          Cardinality({k \in DOMAIN FailedLinks : FailedLinks[k] = chat_links[idx - 1]}) = 1

\* A run over four links is through: the first link failed, the second asked for
\* a captcha, the two after them were joined.
C20_Witness ==
    /\ rpc = "done"
    /\ run_ret.why = "finished"
    /\ Len(chat_links) = MaxTargets
    /\ results.failed_chats = <<[link |-> chat_links[1], error |-> "error"]>>
    /\ results.captcha_required = <<chat_links[2]>>
    /\ results.success = 2

\* C21: a join request that fails, with a captcha or any other error that is not a
\* flood wait, is followed by no sleep, and leaves join_count and current_delay as
\* they were: the loop goes straight to the next link.
C21_FailuresAreNotPaced ==
    [][\A e \in Errors :
          (e.type = "Exception" /\ JoinRaises(e))
              => /\ UNCHANGED <<join_count, current_delay>>
                 /\ tally'.sleeps = tally.sleeps
                 /\ iter'.sleeps = <<>>
                 /\ rpc' = "iter"
                 /\ idx' = idx + 1]_vars

\* After two joins (the delay stands at 60 s) a join request asked for a captcha,
\* and the loop is at its top again with the backoff state of before.
C21_Witness ==
    /\ rpc = "iter"
    /\ iter.outcome = "captcha"
    /\ raised.type = "Exception"
    /\ join_count = 2
    /\ current_delay = SecondDelay
    /\ tally.sleeps = 2

\* The join requests of the run were made at strictly increasing positions of the
\* list, and the one in progress is for the current position.
InOrder ==
    /\ \A i, j \in DOMAIN tally.order :
          i < j => tally.order[i].pos < tally.order[j].pos
    /\ \A i \in DOMAIN tally.order : tally.order[i].pos \in 1..Len(chat_links)
    /\ rpc \in {"join", "sleep", "flood"} =>
          tally.order[Len(tally.order)].pos = idx

\* C22: the links are tried in the order of the list, one at a time, none twice
\* (a link that met a flood wait or a captcha is not tried again); and when every
\* join request and every sleep returns, the run ends.
C22_InOrderOnceAndEnds == []InOrder /\ (InLoop ~> rpc = "done")

\* A run over the four links is through with all four tried, first to last, a
\* flood wait and a captcha among the outcomes.
C22_Witness ==
    /\ rpc = "done"
    /\ run_ret.why = "finished"
    /\ Len(tally.order) = MaxTargets
    /\ \A i \in DOMAIN tally.order : tally.order[i].pos = i
    /\ flooded
    /\ results.captcha_required # <<>>

\* C24: a link of the joinchat form is never looked up among the usernames of the
\* dialogs: whatever the dialogs are, it is not passed over and not counted in
\* already_member.
C24_InvitesNeverSkipped ==
    /\ (rpc = "iter" /\ iter.outcome = "skip") => ~chat_links[idx - 1].priv
    /\ InLoop =>
          results.already_member
              <= Cardinality({k \in DOMAIN chat_links : ~chat_links[k].priv})

\* The link whose iteration has just ended.
PrevLink == chat_links[idx - 1]

\* C25, as stated: a public link is passed over if and only if its username is,
\* letter case aside, the username of a dialog of the snapshot.
C25_SkipIffDialogUsername ==
    (rpc = "iter" /\ idx > 1 /\ ~PrevLink.priv) =>
        (iter.outcome = "skip"
            <=> \E d \in snapshot :
                   d.username.name # 0 /\ Lower(d.username) = Lower(PrevLink.seg))

\* C25, amended: a public link is passed over if and only if its username is,
\* letter case aside, the username of a dialog of the snapshot that is a channel;
\* a link passed over gets no join request and no sleep, and already_member counts
\* each such link once.
C25_SkipIffChannelUsername ==
    /\ (rpc = "iter" /\ idx > 1 /\ ~PrevLink.priv) =>
          /\ iter.outcome = "skip"
                <=> \E d \in snapshot :
                       /\ d.is_channel
                       /\ d.username.name # 0
                       /\ Lower(d.username) = Lower(PrevLink.seg)
          /\ iter.outcome = "skip" =>
                /\ iter.sleeps = <<>>
                /\ \A i \in DOMAIN tally.order : tally.order[i].pos # idx - 1
    /\ InLoop => results.already_member = Members(Len(chat_links))

\* The public link name2 was passed over, the channel NAME2 being in the dialogs.
C25_Witness ==
    /\ rpc = "iter"
    /\ idx > 1
    /\ ~PrevLink.priv
    /\ ~PrevLink.seg.upper
    /\ iter.outcome = "skip"
    /\ \E d \in snapshot : d.is_channel /\ d.username.upper /\ d.username.name = PrevLink.seg.name

\* The link the last join request was for.
TriedLink == chat_links[tally.order[Len(tally.order)].pos]

\* C27: what a join request ends in decides the outcome, one outcome for each:
\* FloodWaitError is a flood wait whatever its message; another exception whose
\* message names a captcha puts the link in captcha_required; any other exception
\* puts the link and its reason in failed_chats; no exception counts in success.
C27_OutcomeByException ==
    (rpc \in {"iter", "sleep", "flood"} /\ iter.outcome \notin {"none", "skip"}) =>
        /\ raised.type = "FloodWaitError" =>
              /\ iter.outcome = "flood"
              /\ iter.wait = raised.seconds
              /\ results.failed_chats[Len(results.failed_chats)]
                    = [link |-> TriedLink, error |-> "wait"]
        /\ (raised.type = "Exception" /\ raised.captcha) =>
              /\ iter.outcome = "captcha"
              /\ results.captcha_required[Len(results.captcha_required)] = TriedLink
        /\ (raised.type = "Exception" /\ ~raised.captcha) =>
              /\ iter.outcome = "failed"
              /\ results.failed_chats[Len(results.failed_chats)]
                    = [link |-> TriedLink, error |-> "error"]
        /\ raised.type = "none" =>
              /\ iter.outcome = "joined"
              /\ results.success >= 1

\* A FloodWaitError whose message names a captcha was met and taken as a flood wait.
C27_Witness ==
    /\ rpc = "flood"
    /\ raised.type = "FloodWaitError"
    /\ raised.captcha
    /\ iter.outcome = "flood"
    /\ results.captcha_required = <<>>

\* C23: one worker per account: whatever the user presses and sends while a run is
\* in progress, at most one run of join_chats is active on the account, so that
\* no run resets the backoff state of another.
C23_OneRunPerAccount == Cardinality({h \in Handlers : hpc[h] = "run"}) <= 1

\* C26: the request made for a link agrees with the branch of extract_chat_links
\* that produced it: ImportChatInviteRequest exactly for the links of the private
\* branch, JoinChannelRequest exactly for those of the public branch.
C26_RequestMatchesClass ==
    \A k \in DOMAIN out : (JoinKind(out[k].link) = "import") <=> (out[k].class = "private")

\* C28: the list extract_chat_links returns has no two public entries that differ
\* only in the letter case of the name: @Foo, foo and https://t.me/FOO give one
\* entry.
C28_NoCaseDuplicates ==
    \A i, j \in DOMAIN out :
        (i < j /\ out[i].class = "public" /\ out[j].class = "public")
            => \/ Lower(out[i].link.seg) # Lower(out[j].link.seg)
               \/ out[i].link.slash # out[j].link.slash

\* The link each line stands for, line by line.
Canon == [k \in DOMAIN lines |-> ExtractLine(lines[k])]

\* The first line that stands for the link.
FirstLine(link) == CHOOSE k \in DOMAIN lines :
                       /\ Canon[k].link = link
                       /\ Canon[k].class # "none"
                       /\ \A m \in 1..(k - 1) : Canon[m].class = "none" \/ Canon[m].link # link

\* C29: the list extract_chat_links returns holds every link the text names, each
\* once, in the order of their first lines; a later line for the same link adds
\* nothing and moves nothing.
C29_FirstSeenOrder ==
    lphase # "input" =>
        /\ \A k \in DOMAIN lines :
              Canon[k].class # "none" => \E i \in DOMAIN out : out[i] = Canon[k]
        /\ \A i \in DOMAIN out : \E k \in DOMAIN lines : out[i] = Canon[k]
        /\ \A i, j \in DOMAIN out :
              i < j => /\ out[i].link # out[j].link
                       /\ FirstLine(out[i].link) < FirstLine(out[j].link)

\* A text whose first and last lines stand for one link and whose middle line for
\* another has given the first link, then the second.
C29_Witness ==
    /\ lphase = "extracted"
    /\ Canon[1].class # "none"
    /\ Canon[3] = Canon[1]
    /\ Canon[2].class # "none"
    /\ Canon[2].link # Canon[1].link
    /\ out = <<Canon[1], Canon[2]>>

\* C30: the joinchat/<hash> and the +<hash> spellings of an invite give the same
\* single entry https://t.me/joinchat/<hash>, and extract_chat_links applied to the
\* list it returned gives that list again, every entry from the same branch.
C30_Idempotent ==
    /\ lphase # "input" =>
          \A i, j \in DOMAIN lines :
              (/\ lines[i].id = lines[j].id
               /\ lines[i].id.name # 0
               /\ lines[i].prefix = "https://t.me/joinchat/"
               /\ lines[j].prefix = "t.me/+")
                  => /\ Canon[i] = Canon[j]
                     /\ Canon[i].link.priv
                     /\ Cardinality({k \in DOMAIN out : out[k] = Canon[i]}) = 1
    /\ lphase = "extracted twice" => again = out

\* C31: every link extract_chat_links returns has a last path segment, the text
\* join_chats looks up and sends, that is not empty; an empty line, or a line
\* with nothing behind its prefix, gives no link.
C31_NoEmptyIdentifier ==
    lphase # "input" =>
        /\ \A k \in DOMAIN lines : lines[k].id.name = 0 => Canon[k].class = "none"
        /\ \A k \in DOMAIN out : LastSegment(out[k].link).name # 0

\* C34: a pacing sleep is made only when a link is left to go to: after the join
\* of the last link of the list the run goes to its final status without sleeping.
C34_NoSleepAfterLast == rpc = "sleep" => idx < Len(chat_links)

\* C32: the status edits of the loop are throttled: however often update_status
\* is called, any two edits that succeeded in a run were begun at least 2 s apart.
C32_RendersThrottled ==
    \A i, j \in DOMAIN renders :
        i < j => renders[j] - renders[i] >= StatusInterval

\* Two status edits of one run succeeded, the second begun exactly 2 s after the
\* first, and the run is over.
C32_Witness ==
    /\ Len(renders) >= 2
    /\ renders[2] - renders[1] = StatusInterval
    /\ rpc = "done"

\* C33: an exception of a status edit changes nothing in the run: the step in
\* which edit_message or send_message raises leaves the counters, the lists, the
\* position and the backoff state as they are and goes on where the same call
\* goes on when it returns; join_chats returns its results, with every link gone
\* through.
C33_StatusFailuresSwallowed ==
    /\ [][/\ (spc = "editing" /\ spc' # spc) => (UNCHANGED runVars /\ spc' = "none")
          /\ (spc = "final" /\ spc' = "fallback") => UNCHANGED runVars
          /\ (spc = "fallback" /\ spc' # spc) => UNCHANGED runVars]_vars
    /\ [](rpc = "done" /\ run_ret.why = "finished"
             => /\ run_ret.returned
                /\ ~run_ret.has_error
                /\ tally.joins + results.already_member = Len(chat_links)
                /\ results.success + results.failed = tally.joins)

\* A run in which an edit of the loop, the final edit and the send_message after
\* it all raised has returned its results, with a join among them.
C33_Witness ==
    /\ rpc = "done"
    /\ run_ret.why = "finished"
    /\ status_failed = {"edit", "final", "fallback"}
    /\ results.success >= 1

\* C35: cleanup_old_files never removes the lock file of a lock that is held,
\* however old the file is; so no acquire_lock gets a fresh file while the holder
\* is active.
C35_CleanupKeepsHeldLocks ==
    [][\A p \in Procs, n \in Names : cleanup_old_files(p, n) => ~Flocked(dir[n])]_vars

C37_ErrorLeavesNoTrace ==
    [][(answer = "none" /\ answer' \in {"auth_error", "error"})
          => /\ user_accounts'[Sender] = "none"
             /\ user_states' = "none"
             /\ locks'[Bot][session_name] = 0]_vars

\* C38: once cleanup() has returned, user_accounts and user_states are empty and
\* the bot process holds no session lock, also when a disconnect() raised.
C38_ShutdownReleasesAll ==
    bpc = "stopped" =>
        /\ \A u \in Users : user_accounts[u] = "none"
        /\ user_states = "none"
        /\ ~HoldsLock

\* C39: every client get_client returns has been started successfully: while
\* handle_webhook works with the client it was given, that client is a started one.
C39_ClientsAreStarted == wpc = "handle" => got = "started"

====
